---------------------------- MODULE Spec2Model ----------------------------
(***************************************************************************)
(* Model of the CruxVision overlay pipeline (backend/src/pipeline):        *)
(*   process.py        read_video_frames, process_frames_with_pose,        *)
(*                     save_pose_data                                      *)
(*   overlay.py        get_landmark_coords, rotate_landmark_coordinates,   *)
(*                     draw_skeleton_*, get_pose_for_frame,                *)
(*                     setup_video_writer, process_video_frames,           *)
(*                     generate_overlay_video                              *)
(*   motion_tracer.py  MotionTracer                                        *)
(*                                                                         *)
(* Six specifications share the module:                                    *)
(*   Spec         one analysis: detection pass, then generate_overlay_video*)
(*   SpecTracer   one MotionTracer object and the calls made on it         *)
(*   SpecRender   the skeleton renderer applied to one landmark set        *)
(*   SpecCoords   the coordinate transformer and draw_skeleton_overlay on  *)
(*                objects of a heap                                        *)
(*   SpecResolver get_video_rotation on one video                          *)
(*   SpecUpload   the upload endpoint: analyze_video requests, one after   *)
(*                the other, and find_original_video on what they saved    *)
(*                                                                         *)
(* Numbers.  A normalized coordinate is an exact rational <<n, d>>, d > 0. *)
(* A visibility is an integer number of hundredths (30 is 0.3).  A frame   *)
(* rate is an integer number of hundredths of a frame per second, a        *)
(* persistence an integer number of tenths of a second.                    *)
(***************************************************************************)
EXTENDS Integers, Sequences, FiniteSets, TLC

VARIABLES
    \* ---- one analysis (Spec) ----
    pc,              \* position of the analysis run
    total_frames,    \* number of frames the source video decodes to
    sampled_frames,  \* read_video_frames: source index of every kept frame
    pose_results,    \* process_frames_with_pose: the PoseFrame records so far
    pose_file,       \* pose_data_<id>.json: [exists, frames], NoFile when absent
    pose_origin,     \* "none" | "pipeline" | "external": who wrote pose_file
    pose_data,       \* generate_overlay_video: the loaded "frames" list
    rotation,        \* video_properties["rotation"]
    cap_fps,         \* what CAP_PROP_FPS reported to setup_video_writer (hundredths)
    video_properties,\* fps, width, height the VideoWriter was created with
    decoder_opened,  \* the capture of process_video_frames could open the source
    output_file,     \* "absent" | "present": the file at output_path
    cap_open,        \* the cv2.VideoCapture of process_video_frames is open
    writer_open,     \* the cv2.VideoWriter is open
    frame_index,     \* process_video_frames: loop counter
    written,         \* frames handed to video_writer.write, in order
    calls,           \* draw_skeleton_overlay invocations (frame, provenance)
    render_errors,   \* frame indexes at which draw_skeleton_overlay raised
    raised_in,       \* the call of generate_overlay_video that raised, or ""
    result,          \* "none" | "returned" | "RuntimeError"
    \* ---- MotionTracer (SpecTracer) ----
    tpc,             \* "new" before __init__, "live" after
    fps,             \* self.fps, hundredths of a frame per second
    persistence_seconds, \* self.persistence_seconds, tenths of a second
    max_age_frames,  \* self.max_age_frames
    position_history,\* self.position_history: <<x, y, frame_index>> tuples
    last_call,       \* the last method called, with its arguments
    last_return,     \* what that call returned
    \* ---- renderer (SpecRender) ----
    rpc,             \* "input" | "drawn"
    r_landmarks,     \* the landmark set handed to the renderer
    r_image,         \* the image: shape and what has been drawn on it
    \* ---- coordinate transformer on a heap (SpecCoords) ----
    cpc,             \* "input", then "rotated", "restored", "looked_up", "drawn" or "..._raised"
    heap,            \* the objects: heap[ref] is the value of object ref
    heap0,           \* the heap as it was before the first call
    c_rotation,      \* the rotation argument
    c_shape,         \* original_shape: (height, width) before rotation
    c_index,         \* the landmark_index argument of get_landmark_coords
    c_return,        \* what the last call returned (a reference or a value)
    \* ---- rotation resolver (SpecResolver) ----
    vpc,             \* "input" | "resolved"
    video,           \* the video: its metadata and what the heuristics score
    consulted,       \* the heuristics called, in order, with what each returned
    resolved,        \* what get_video_rotation returned
    \* ---- upload endpoint (SpecUpload) ----
    upc,             \* position of analyze_video in the request it is serving
    issued,          \* the ids generate_analysis_id has returned
    file,            \* the UploadFile of the request: filename, size, content
    analysis_id,     \* the id generated for the request
    response,        \* what the request was answered with, or None
    upload_dir,      \* backend/static/uploads: file name -> the file there
    analysis_storage,\* the dict of analysis_storage.py
    file_path,       \* what validate_and_save_video returned
    tasks,           \* background_tasks: <<file_path, analysis_id>> in order of add_task
    lookup           \* the last find_original_video call: its id and result

pipeVars   == <<pc, total_frames, sampled_frames, pose_results, pose_file,
                pose_origin, pose_data, rotation, cap_fps, video_properties,
                decoder_opened, output_file, cap_open, writer_open,
                frame_index, written, calls, render_errors, raised_in, result>>
tracerVars == <<tpc, fps, persistence_seconds, max_age_frames,
                position_history, last_call, last_return>>
renderVars == <<rpc, r_landmarks, r_image>>
coordVars  == <<cpc, heap, heap0, c_rotation, c_shape, c_index, c_return>>
resolverVars == <<vpc, video, consulted, resolved>>
uploadVars == <<upc, issued, file, analysis_id, response, upload_dir,
                analysis_storage, file_path, tasks, lookup>>
vars       == <<pipeVars, tracerVars, renderVars, coordVars, resolverVars, uploadVars>>

-----------------------------------------------------------------------------
(* Values shared by the three parts *)

None     == <<>>          \* Python's None (never a value of its own here)
KeyError == "KeyError"    \* the exception type
NoFile   == [exists |-> FALSE, frames |-> <<>>]   \* a file that does not exist

\* What a call that can raise comes to: a returned value or an exception.
Ok(v)    == [ok |-> TRUE, val |-> v]
Raise(e) == [ok |-> FALSE, exc |-> e]

\* int(n/d) for d > 0: Python's int() truncates toward zero.
Trunc(n, d) == IF n >= 0 THEN n \div d ELSE -((-n) \div d)

\* r * k and r / k for a rational r = <<n, d>> and an integer k > 0.
RTimes(r, k) == <<r[1] * k, r[2]>>
ROver(r, k)  == <<r[1], r[2] * k>>
\* k - r
RFrom(k, r)  == <<k * r[2] - r[1], r[2]>>

-----------------------------------------------------------------------------
(* overlay.py: coordinate transformer and skeleton renderer.               *)
(* An image is a record [h, w, src, rot, lines, circles]: its shape, the   *)
(* source frame it shows, the rotation applied to that frame, and what has *)
(* been drawn on it.  Two images are pixel-identical when the records are  *)
(* equal.  A landmark is a record with (some of) the keys x, y,            *)
(* visibility; landmark i of the code is element i + 1 of the sequence.    *)

POSE_CONNECTIONS ==
    << <<0, 11>>, <<0, 12>>,
       <<11, 12>>, <<11, 13>>, <<12, 14>>, <<13, 15>>, <<14, 16>>,
       <<11, 23>>, <<12, 24>>,
       <<23, 24>>, <<23, 25>>, <<24, 26>>, <<25, 27>>, <<26, 28>>,
       <<27, 29>>, <<28, 30>>, <<29, 31>>, <<30, 32>>,
       <<15, 17>>, <<17, 19>>, <<19, 21>>, <<21, 15>>,
       <<16, 18>>, <<18, 20>>, <<20, 22>>, <<22, 16>> >>

face_landmarks_to_skip == 1..10

\* get_landmark_coords without the bounds test.
get_landmark_coords_Unchecked(landmarks_json, landmark_index, image_shape) ==
    IF landmark_index >= Len(landmarks_json) THEN Ok(None)
    ELSE LET landmark == landmarks_json[landmark_index + 1] IN
         IF "x" \notin DOMAIN landmark \/ "y" \notin DOMAIN landmark
         THEN Raise(KeyError)
         ELSE Ok(<<Trunc(landmark.x[1] * image_shape[2], landmark.x[2]),
                   Trunc(landmark.y[1] * image_shape[1], landmark.y[2])>>)

get_landmark_coords(landmarks_json, landmark_index, image_shape) ==
    IF landmark_index >= Len(landmarks_json) THEN Ok(None)
    ELSE LET landmark == landmarks_json[landmark_index + 1] IN
         IF "x" \notin DOMAIN landmark \/ "y" \notin DOMAIN landmark
         THEN Raise(KeyError)
         ELSE LET x == Trunc(landmark.x[1] * image_shape[2], landmark.x[2])
                  y == Trunc(landmark.y[1] * image_shape[1], landmark.y[2])
              IN  IF 0 <= x /\ x < image_shape[2] /\ 0 <= y /\ y < image_shape[1]
                  THEN Ok(<<x, y>>)
                  ELSE Ok(None)

\* The segments draw_skeleton_connections draws when no lookup raises: one
\* per connection whose two lookups both gave a point.
ConnectionsDrawn(image, landmarks_json) ==
    LET shape == <<image.h, image.w>>
        point1(c) == get_landmark_coords(landmarks_json, POSE_CONNECTIONS[c][1], shape).val
        point2(c) == get_landmark_coords(landmarks_json, POSE_CONNECTIONS[c][2], shape).val
    IN  { c \in DOMAIN POSE_CONNECTIONS : point1(c) # None /\ point2(c) # None }

draw_skeleton_connections(image, landmarks_json) ==
    LET shape == <<image.h, image.w>>
        point1(c) == get_landmark_coords(landmarks_json, POSE_CONNECTIONS[c][1], shape)
        point2(c) == get_landmark_coords(landmarks_json, POSE_CONNECTIONS[c][2], shape)
    IN  IF \E c \in DOMAIN POSE_CONNECTIONS : ~point1(c).ok \/ ~point2(c).ok
        THEN Raise(KeyError)
        ELSE Ok([image EXCEPT !.lines =
                    image.lines \cup { <<point1(c).val, point2(c).val>> :
                                          c \in ConnectionsDrawn(image, landmarks_json) }])

\* landmark.get("visibility", 0.0)
Visibility(landmark) ==
    IF "visibility" \in DOMAIN landmark THEN landmark.visibility ELSE 0

ConfidenceColor(confidence) ==
    IF confidence > 80 THEN "green"
    ELSE IF confidence > 50 THEN "yellow"
    ELSE "red"

draw_skeleton_landmarks(image, landmarks_json) ==
    LET shown  == { i \in 0..(Len(landmarks_json) - 1) : i \notin face_landmarks_to_skip }
        coords(i) == get_landmark_coords(landmarks_json, i, <<image.h, image.w>>)
    IN  IF \E i \in shown : ~coords(i).ok
        THEN Raise(KeyError)
        ELSE Ok([image EXCEPT !.circles =
                    image.circles \cup
                    { <<coords(i).val[1], coords(i).val[2],
                        ConfidenceColor(Visibility(landmarks_json[i + 1]))>> :
                          i \in { j \in shown : coords(j).val # None } }])

\* RotateOne with the 90 degree formulas used for 270 degrees too.
RotateOne_QuarterTurnsAlike(landmark, rot, original_shape, rotated_shape) ==
    LET orig_height == original_shape[1]
        orig_width  == original_shape[2]
        rot_height  == rotated_shape[1]
        rot_width   == rotated_shape[2]
        x_pixel == RTimes(landmark.x, orig_width)
        y_pixel == RTimes(landmark.y, orig_height)
        new_x == CASE rot \in {90, 270} -> RFrom(orig_height, y_pixel)
                   [] rot = 180 -> RFrom(orig_width, x_pixel)
                   [] OTHER     -> x_pixel
        new_y == CASE rot \in {90, 270} -> x_pixel
                   [] rot = 180 -> RFrom(orig_height, y_pixel)
                   [] OTHER     -> y_pixel
    IN  [landmark EXCEPT !.x = ROver(new_x, rot_width),
                         !.y = ROver(new_y, rot_height)]

\* The body of the loop of rotate_landmark_coordinates: one landmark.
RotateOne(landmark, rot, original_shape, rotated_shape) ==
    LET orig_height == original_shape[1]
        orig_width  == original_shape[2]
        rot_height  == rotated_shape[1]
        rot_width   == rotated_shape[2]
        x_pixel == RTimes(landmark.x, orig_width)
        y_pixel == RTimes(landmark.y, orig_height)
        new_x == CASE rot = 90  -> RFrom(orig_height, y_pixel)
                   [] rot = 180 -> RFrom(orig_width, x_pixel)
                   [] rot = 270 -> y_pixel
                   [] OTHER     -> x_pixel
        new_y == CASE rot = 90  -> x_pixel
                   [] rot = 180 -> RFrom(orig_height, y_pixel)
                   [] rot = 270 -> RFrom(orig_width, x_pixel)
                   [] OTHER     -> y_pixel
    IN  [landmark EXCEPT !.x = ROver(new_x, rot_width),
                         !.y = ROver(new_y, rot_height)]

rotate_landmark_coordinates(landmarks_json, rot, original_shape, rotated_shape) ==
    IF rot = 0 THEN Ok(landmarks_json)
    ELSE IF \E i \in DOMAIN landmarks_json :
                "x" \notin DOMAIN landmarks_json[i] \/ "y" \notin DOMAIN landmarks_json[i]
         THEN Raise(KeyError)
         ELSE Ok([i \in DOMAIN landmarks_json |->
                     RotateOne(landmarks_json[i], rot, original_shape, rotated_shape)])

draw_skeleton_overlay(image, landmarks_json, rot, original_shape) ==
    LET rotated == IF rot # 0 /\ original_shape # None
                   THEN rotate_landmark_coordinates(landmarks_json, rot, original_shape,
                                                    <<image.h, image.w>>)
                   ELSE Ok(landmarks_json)
        lined   == IF rotated.ok THEN draw_skeleton_connections(image, rotated.val)
                   ELSE rotated
    IN  IF lined.ok THEN draw_skeleton_landmarks(lined.val, rotated.val)
        ELSE lined

\* A rotation that leaves the shape of the frame as it was.
RotateFrame_KeepsShape(frame, rot) == [frame EXCEPT !.rot = rot]

\* cv2.rotate of a whole frame by the resolved rotation (process_video_frames).
RotateFrame(frame, rot) ==
    IF rot = 0 THEN frame
    ELSE IF rot = 180 THEN [frame EXCEPT !.rot = 180]
    ELSE [frame EXCEPT !.rot = rot, !.h = frame.w, !.w = frame.h]


-----------------------------------------------------------------------------
(* Bounds of the model *)

MaxFrames     == 4    \* the source video decodes to 0..MaxFrames frames
MaxPoseFrames == 2    \* records in a pose data file that detection did not write
SourceWidth   == 3    \* CAP_PROP_FRAME_WIDTH of the source
SourceHeight  == 2    \* CAP_PROP_FRAME_HEIGHT of the source

-----------------------------------------------------------------------------
(* process.py: the detection pass *)

SAMPLE_RATE           == 3
MAX_FRAMES_TO_PROCESS == 2000

\* The while loop of read_video_frames over a source of n frames; a kept
\* frame is named by its index in the source.
RECURSIVE ReadLoop(_, _, _)
ReadLoop(n, frame_count, sampled) ==
    IF frame_count >= n THEN sampled
    ELSE IF frame_count % SAMPLE_RATE = 0
         THEN IF Len(sampled) + 1 >= MAX_FRAMES_TO_PROCESS
              THEN Append(sampled, frame_count)
              ELSE ReadLoop(n, frame_count + 1, Append(sampled, frame_count))
         ELSE ReadLoop(n, frame_count + 1, sampled)

read_video_frames(n) ==
    LET sampled == ReadLoop(n, 0, <<>>)
    IN  IF Len(sampled) = 0 THEN Raise("RuntimeError") ELSE Ok(sampled)

\* The 33 landmarks MediaPipe reports for a frame: every one has x, y and
\* visibility.  The positions stand for any the detector may report.
DetectedLandmarks(src) ==
    [i \in 1..33 |-> [x |-> <<(i + src) % 4, 4>>,
                      y |-> <<i % 3, 3>>,
                      visibility |-> (i * 7) % 101]]

\* A landmark set that is structurally invalid: landmark 11 has no "x".
InvalidLandmarks ==
    [i \in 1..33 |-> IF i = 12 THEN [y |-> <<1, 3>>, visibility |-> 90]
                     ELSE DetectedLandmarks(0)[i]]

\* A record numbered by the source frame it was computed from.
PoseRecord_IndexFromSource(i, src, outcome) ==
    [frame_index |-> src, pose_detected |-> outcome = "pose",
     landmarks |-> IF outcome = "pose" THEN DetectedLandmarks(src) ELSE <<>>,
     detected_from |-> src]

\* detect_pose_in_frame, and the except branch of process_frames_with_pose.
\* detected_from is not a key of the JSON record: it remembers the source
\* frame the record was computed from.
\* The except branch also stores an "error" key.
PoseRecord(i, src, outcome) ==
    IF outcome = "pose"
    THEN [frame_index |-> i, pose_detected |-> TRUE,
          landmarks |-> DetectedLandmarks(src), detected_from |-> src]
    ELSE IF outcome = "error"
    THEN [frame_index |-> i, pose_detected |-> FALSE,
          landmarks |-> <<>>, detected_from |-> src, error |-> TRUE]
    ELSE [frame_index |-> i, pose_detected |-> FALSE,
          landmarks |-> <<>>, detected_from |-> src]

\* Pose data files that the detection pass did not write.
ExternalPoseFrames ==
    { [frame_index |-> i, pose_detected |-> k[1], landmarks |-> k[2], detected_from |-> -1] :
        i \in 0..(MaxPoseFrames - 1),
        k \in { <<FALSE, DetectedLandmarks(0)>>, <<TRUE, <<>> >>,
                <<TRUE, DetectedLandmarks(0)>>, <<TRUE, InvalidLandmarks>> } }

ExternalPoseFiles ==
    {NoFile} \cup
    { [exists |-> TRUE, frames |-> f] :
        f \in UNION { [1..n -> ExternalPoseFrames] : n \in 0..MaxPoseFrames } }

-----------------------------------------------------------------------------
(* overlay.py: the frame-sync compositor *)

ROTATIONS == {0, 90, 180, 270}

SourceFrame(k) ==
    [h |-> SourceHeight, w |-> SourceWidth, src |-> k, rot |-> 0,
     lines |-> {}, circles |-> {}]

get_pose_for_frame(pose_frames, k) ==
    LET matches == { j \in DOMAIN pose_frames : pose_frames[j].frame_index = k }
    IN  IF matches = {} THEN None
        ELSE pose_frames[CHOOSE j \in matches : \A m \in matches : j <= m]

\* OverlayWanted without the pose_detected test.
OverlayWanted_IgnoresPoseDetected(frame_pose_data) ==
    /\ frame_pose_data # None
    /\ Len(frame_pose_data.landmarks) > 0

\* The two conditions of process_video_frames that guard the renderer.
OverlayWanted(frame_pose_data) ==
    /\ frame_pose_data # None
    /\ frame_pose_data.pose_detected
    /\ Len(frame_pose_data.landmarks) > 0


\* CAP_PROP_FPS of the source, in hundredths of a frame per second.
SourceFpsValues == {2997, 3000}

\* No writer has been created yet.
NoWriter == [fps |-> 0, width |-> 0, height |-> 0]

\* setup_video_writer: the fps and frame size handed to cv2.VideoWriter for a
\* source of frame rate f (hundredths), cap_width x cap_height, rotation rot.
WriterProperties(f, cap_width, cap_height, rot) ==
    LET swap == rot \in {90, 270}
    IN  [fps    |-> Trunc(f, 100),
         width  |-> IF swap THEN cap_height ELSE cap_width,
         height |-> IF swap THEN cap_width ELSE cap_height]

\* What the parts not under study hold while one specification runs.
TracerIdle ==
    /\ tpc = "new" /\ fps = 0 /\ persistence_seconds = 0 /\ max_age_frames = 0
    /\ position_history = <<>> /\ last_call = <<"none">> /\ last_return = None

RenderIdle ==
    /\ rpc = "input" /\ r_landmarks = <<>> /\ r_image = SourceFrame(0)

CoordsIdle ==
    /\ cpc = "input" /\ heap = <<>> /\ heap0 = <<>> /\ c_rotation = 0
    /\ c_shape = <<SourceHeight, SourceWidth>> /\ c_index = 0 /\ c_return = None

ResolverIdle ==
    /\ vpc = "input" /\ video = None /\ consulted = <<>> /\ resolved = 0

\* Values of the upload endpoint's variables before any request.
NoUpload   == [filename |-> <<>>, size |-> 0, content |-> [start |-> "", head |-> {}]]
NoResponse == [status |-> 0, detail |-> "", id |-> <<>>]
NoPath     == [dir |-> "", name |-> <<>>]
NoLookup   == [analysis_id |-> <<>>, result |-> Raise("none")]

UploadIdle ==
    /\ upc = "idle" /\ issued = {} /\ file = NoUpload /\ analysis_id = None
    /\ response = NoResponse /\ upload_dir = <<>> /\ analysis_storage = <<>>
    /\ file_path = NoPath /\ tasks = <<>> /\ lookup = NoLookup

PipeIdle ==
    /\ pc = "start" /\ total_frames = 0 /\ sampled_frames = <<>>
    /\ pose_results = <<>> /\ pose_file = NoFile /\ pose_origin = "none"
    /\ pose_data = <<>> /\ rotation = 0 /\ cap_open = FALSE /\ writer_open = FALSE
    /\ cap_fps = 0 /\ video_properties = NoWriter
    /\ decoder_opened = FALSE /\ output_file = "absent"
    /\ frame_index = 0 /\ written = <<>> /\ calls = <<>> /\ render_errors = {}
    /\ raised_in = "" /\ result = "none"

Init ==
    /\ pc = "start"
    /\ total_frames \in 0..MaxFrames
    /\ sampled_frames = <<>> /\ pose_results = <<>>
    /\ pose_file = NoFile /\ pose_origin = "none" /\ pose_data = <<>>
    /\ rotation = 0 /\ cap_open = FALSE /\ writer_open = FALSE
    /\ cap_fps = 0 /\ video_properties = NoWriter
    /\ decoder_opened = FALSE /\ output_file = "absent"
    /\ frame_index = 0 /\ written = <<>> /\ calls = <<>> /\ render_errors = {}
    /\ raised_in = "" /\ result = "none"
    /\ TracerIdle /\ RenderIdle /\ CoordsIdle /\ ResolverIdle /\ UploadIdle

\* process_video_with_pose: read_video_frames.  With no frame extracted it
\* raises and no pose data file is written.
ReadVideoFrames ==
    /\ pc = "start"
    /\ LET r == read_video_frames(total_frames) IN
         IF r.ok
         THEN /\ sampled_frames' = r.val
              /\ pc' = "detect"
         ELSE /\ pc' = "ready"
              /\ UNCHANGED sampled_frames
    /\ UNCHANGED <<total_frames, pose_results, pose_file, pose_origin, pose_data,
                   rotation, cap_open, writer_open, frame_index, written, calls,
                   render_errors, raised_in, result>>
    /\ UNCHANGED <<cap_fps, video_properties, decoder_opened, output_file>>
    /\ UNCHANGED <<tracerVars, renderVars, coordVars, resolverVars, uploadVars>>

\* One iteration of process_frames_with_pose: frame i of the sampled list.
ProcessFrameWithPose ==
    /\ pc = "detect"
    /\ Len(pose_results) < Len(sampled_frames)
    /\ \E outcome \in {"pose", "nopose", "error"} :
         LET i == Len(pose_results) IN
         pose_results' = Append(pose_results, PoseRecord(i, sampled_frames[i + 1], outcome))
    /\ UNCHANGED <<pc, total_frames, sampled_frames, pose_file, pose_origin, pose_data,
                   rotation, cap_open, writer_open, frame_index, written, calls,
                   render_errors, raised_in, result>>
    /\ UNCHANGED <<cap_fps, video_properties, decoder_opened, output_file>>
    /\ UNCHANGED <<tracerVars, renderVars, coordVars, resolverVars, uploadVars>>

\* save_pose_data: "frames" of pose_data_<id>.json is the result list.
SavePoseData ==
    /\ pc = "detect"
    /\ Len(pose_results) = Len(sampled_frames)
    /\ pose_file' = [exists |-> TRUE, frames |-> pose_results]
    /\ pose_origin' = "pipeline"
    /\ pc' = "ready"
    /\ UNCHANGED <<total_frames, sampled_frames, pose_results, pose_data,
                   rotation, cap_open, writer_open, frame_index, written, calls,
                   render_errors, raised_in, result>>
    /\ UNCHANGED <<cap_fps, video_properties, decoder_opened, output_file>>
    /\ UNCHANGED <<tracerVars, renderVars, coordVars, resolverVars, uploadVars>>

\* The pose data file was put there by something other than this run's
\* detection pass (generate_overlay_video reads whatever the file holds).
ExternalPoseData ==
    /\ pc = "start"
    /\ pose_file' \in ExternalPoseFiles
    /\ pose_origin' = "external"
    /\ pc' = "ready"
    /\ UNCHANGED <<total_frames, sampled_frames, pose_results, pose_data,
                   rotation, cap_open, writer_open, frame_index, written, calls,
                   render_errors, raised_in, result>>
    /\ UNCHANGED <<cap_fps, video_properties, decoder_opened, output_file>>
    /\ UNCHANGED <<tracerVars, renderVars, coordVars, resolverVars, uploadVars>>

\* The except clause of generate_overlay_video: whatever was raised inside
\* the try block leaves as RuntimeError; nothing is released there.
Raised(where) ==
    /\ raised_in' = where
    /\ result' = "RuntimeError"
    /\ pc' = "raised"

\* generate_overlay_video: load_pose_data and the two emptiness checks.
LoadPoseData ==
    /\ pc = "ready"
    /\ IF ~pose_file.exists \/ Len(pose_file.frames) = 0
       THEN /\ Raised("load_pose_data")
            /\ UNCHANGED pose_data
       ELSE /\ pose_data' = pose_file.frames
            /\ pc' = "find"
            /\ UNCHANGED <<raised_in, result>>
    /\ UNCHANGED <<total_frames, sampled_frames, pose_results, pose_file, pose_origin,
                   rotation, cap_open, writer_open, frame_index, written, calls,
                   render_errors>>
    /\ UNCHANGED <<cap_fps, video_properties, decoder_opened, output_file>>
    /\ UNCHANGED <<tracerVars, renderVars, coordVars, resolverVars, uploadVars>>

\* generate_overlay_video: find_original_video finds the upload or raises.
FindOriginalVideo ==
    /\ pc = "find"
    /\ \E found \in BOOLEAN :
         IF found
         THEN /\ pc' = "setup"
              /\ UNCHANGED <<raised_in, result>>
         ELSE Raised("find_original_video")
    /\ UNCHANGED <<total_frames, sampled_frames, pose_results, pose_file, pose_origin,
                   pose_data, rotation, cap_open, writer_open, frame_index, written,
                   calls, render_errors>>
    /\ UNCHANGED <<cap_fps, video_properties, decoder_opened, output_file>>
    /\ UNCHANGED <<tracerVars, renderVars, coordVars, resolverVars, uploadVars>>

\* setup_video_writer: read fps, width and height of the source, resolve the
\* rotation, swap width and height for a quarter turn, create the writer;
\* raises when the writer did not open.
SetupVideoWriter ==
    /\ pc = "setup"
    /\ \E f \in SourceFpsValues, r \in ROTATIONS, opened \in BOOLEAN :
         /\ cap_fps' = f
         /\ IF opened
            THEN /\ rotation' = r
                 /\ video_properties' = WriterProperties(f, SourceWidth, SourceHeight, r)
                 /\ writer_open' = TRUE
                 /\ output_file' = "present"
                 /\ pc' = "open"
                 /\ UNCHANGED <<raised_in, result>>
            ELSE /\ Raised("setup_video_writer")
                 /\ UNCHANGED <<rotation, video_properties, writer_open, output_file>>
    /\ UNCHANGED decoder_opened
    /\ UNCHANGED <<total_frames, sampled_frames, pose_results, pose_file, pose_origin,
                   pose_data, cap_open, frame_index, written, calls, render_errors>>
    /\ UNCHANGED <<tracerVars, renderVars, coordVars, resolverVars, uploadVars>>

\* process_video_frames up to its loop: the capture is created.  Whether it
\* opened is not tested: a capture that did not open reports no frame.
OpenCapture ==
    /\ pc = "open"
    /\ \E opened \in BOOLEAN :
         /\ decoder_opened' = opened
         /\ cap_open' = opened
    /\ frame_index' = 0
    /\ pc' = "streaming"
    /\ UNCHANGED <<total_frames, sampled_frames, pose_results, pose_file, pose_origin,
                   pose_data, rotation, writer_open, written, calls, render_errors,
                   raised_in, result>>
    /\ UNCHANGED <<cap_fps, video_properties, output_file>>
    /\ UNCHANGED <<tracerVars, renderVars, coordVars, resolverVars, uploadVars>>

\* One iteration of the loop of process_video_frames with ret true: rotate,
\* look up, draw when wanted, write.  A raise inside draw_skeleton_overlay
\* leaves the loop and the function; generate_overlay_video catches it.
ProcessVideoFrame ==
    /\ pc = "streaming"
    /\ decoder_opened
    /\ frame_index < total_frames
    /\ LET frame == RotateFrame(SourceFrame(frame_index), rotation)
           frame_pose_data == get_pose_for_frame(pose_data, frame_index)
       IN  IF OverlayWanted(frame_pose_data)
           THEN \E drawn \in {draw_skeleton_overlay(frame, frame_pose_data.landmarks, rotation,
                                                     <<SourceHeight, SourceWidth>>)} :
                    /\ calls' = Append(calls, [frame_index |-> frame_index,
                                               detected_from |-> frame_pose_data.detected_from])
                    /\ IF drawn.ok
                       THEN /\ written' = Append(written, drawn.val)
                            /\ frame_index' = frame_index + 1
                            /\ UNCHANGED <<pc, render_errors, raised_in, result>>
                       ELSE /\ render_errors' = render_errors \cup {frame_index}
                            /\ Raised("process_video_frames")
                            /\ UNCHANGED <<written, frame_index>>
           ELSE /\ written' = Append(written, frame)
                /\ frame_index' = frame_index + 1
                /\ UNCHANGED <<pc, calls, render_errors, raised_in, result>>
    /\ UNCHANGED <<total_frames, sampled_frames, pose_results, pose_file, pose_origin,
                   pose_data, rotation, cap_open, writer_open>>
    /\ UNCHANGED <<cap_fps, video_properties, decoder_opened, output_file>>
    /\ UNCHANGED <<tracerVars, renderVars, coordVars, resolverVars, uploadVars>>

\* cap.read() reports no more frames: leave the loop, cap.release().
Drained ==
    /\ pc = "streaming"
    /\ ~decoder_opened \/ frame_index >= total_frames
    /\ cap_open' = FALSE
    /\ pc' = "cleanup"
    /\ UNCHANGED <<total_frames, sampled_frames, pose_results, pose_file, pose_origin,
                   pose_data, rotation, writer_open, frame_index, written, calls,
                   render_errors, raised_in, result>>
    /\ UNCHANGED <<cap_fps, video_properties, decoder_opened, output_file>>
    /\ UNCHANGED <<tracerVars, renderVars, coordVars, resolverVars, uploadVars>>

\* generate_overlay_video returning output_path with the writer still open.
CleanupAndReturn_KeepsWriter ==
    /\ pc = "cleanup"
    /\ result' = "returned"
    /\ pc' = "done"
    /\ UNCHANGED <<total_frames, sampled_frames, pose_results, pose_file, pose_origin,
                   pose_data, rotation, cap_open, writer_open, frame_index, written,
                   calls, render_errors, raised_in>>
    /\ UNCHANGED <<cap_fps, video_properties, decoder_opened, output_file>>
    /\ UNCHANGED <<tracerVars, renderVars, coordVars, resolverVars, uploadVars>>

\* generate_overlay_video: cleanup_video_writer, then return output_path.
CleanupAndReturn ==
    /\ pc = "cleanup"
    /\ writer_open' = FALSE
    /\ result' = "returned"
    /\ pc' = "done"
    /\ UNCHANGED <<total_frames, sampled_frames, pose_results, pose_file, pose_origin,
                   pose_data, rotation, cap_open, frame_index, written, calls,
                   render_errors, raised_in>>
    /\ UNCHANGED <<cap_fps, video_properties, decoder_opened, output_file>>
    /\ UNCHANGED <<tracerVars, renderVars, coordVars, resolverVars, uploadVars>>

Next ==
    \/ ReadVideoFrames
    \/ ProcessFrameWithPose
    \/ SavePoseData
    \/ ExternalPoseData
    \/ LoadPoseData
    \/ FindOriginalVideo
    \/ SetupVideoWriter
    \/ OpenCapture
    \/ ProcessVideoFrame
    \/ Drained
    \/ CleanupAndReturn

Spec == Init /\ [][Next]_vars


-----------------------------------------------------------------------------
(* Properties of one analysis (Spec) *)

\* The loop of process_video_frames has been left, normally or by a raise.
ProcessVideoFramesEnded ==
    pc \in {"cleanup", "done"} \/ raised_in = "process_video_frames"

\* The source frames on which the loop body has run.
FramesAttempted == 0..(frame_index - 1) \cup render_errors

RendererInvoked(k) == \E c \in DOMAIN calls : calls[c].frame_index = k

\* C1: when the pose data was written by the detection pass, every overlay is
\* drawn from landmarks that were computed from the very source frame it is
\* drawn on: the PoseFrame looked up for source frame k was detected from
\* source frame k.
C1_FrameIndexMatchesSource ==
    pose_origin = "pipeline" =>
        \A c \in DOMAIN calls : calls[c].detected_from = calls[c].frame_index

\* The number of frames cap.read() delivers: none from a capture that did
\* not open.
DecodedFrames == IF decoder_opened THEN total_frames ELSE 0

\* C2: once process_video_frames has ended, the writer holds exactly one
\* frame per decoded source frame, in source order.
C2_EverySourceFrameWritten ==
    ProcessVideoFramesEnded =>
        /\ Len(written) = DecodedFrames
        /\ \A i \in DOMAIN written : written[i].src = i - 1

\* C3 as claimed: the renderer is invoked on source frame k iff a record with
\* frame_index k is found and its pose_detected is true; otherwise output
\* frame k is pixel-identical to source frame k.
C3_Original ==
    \A k \in FramesAttempted :
        LET p == get_pose_for_frame(pose_data, k) IN
        /\ RendererInvoked(k) <=> (p # None /\ p.pose_detected)
        /\ ~RendererInvoked(k) => written[k + 1] = SourceFrame(k)

\* C3 as amended: the renderer is invoked on source frame k iff a record with
\* frame_index k is found, its pose_detected is true and its landmark list is
\* not empty; otherwise output frame k is source frame k with the run's
\* rotation applied and nothing drawn on it.
C3_PassThroughUnlessPoseWithLandmarks ==
    \A k \in FramesAttempted :
        LET p == get_pose_for_frame(pose_data, k) IN
        /\ RendererInvoked(k) <=> (p # None /\ p.pose_detected /\ Len(p.landmarks) > 0)
        /\ ~RendererInvoked(k) =>
              /\ written[k + 1].src = k
              /\ written[k + 1].rot = rotation
              /\ written[k + 1].lines = {}
              /\ written[k + 1].circles = {}
              /\ (rotation = 0 => written[k + 1] = SourceFrame(k))

\* A frame whose record says pose_detected false, though it carries
\* landmarks, has been written with no overlay, and another frame of the same
\* run has been drawn on.
C3_Witness ==
    /\ \E k \in 0..(frame_index - 1) :
         LET p == get_pose_for_frame(pose_data, k) IN
         /\ p # None /\ ~p.pose_detected /\ Len(p.landmarks) > 0
         /\ ~RendererInvoked(k)
         /\ written[k + 1].lines = {} /\ written[k + 1].circles = {}
    /\ \E j \in 0..(frame_index - 1) : RendererInvoked(j) /\ written[j + 1].lines # {}

\* C4: when generate_overlay_video has returned or raised, the capture and
\* the writer have both been released.
C4_HandlesReleasedOnExit ==
    result # "none" => ~cap_open /\ ~writer_open

\* C5: a frame whose overlay could not be rendered does not abort the run:
\* the run does not raise, the frame is written without overlay, and a run
\* that returns has written every source frame.
C5_FrameErrorDoesNotAbort ==
    \A k \in render_errors :
        /\ result # "RuntimeError"
        /\ frame_index > k =>
              /\ written[k + 1].src = k
              /\ written[k + 1].lines = {} /\ written[k + 1].circles = {}
        /\ result = "returned" => Len(written) = DecodedFrames

\* The VideoWriter has been created by setup_video_writer.
WriterCreated == pc \in {"open", "streaming", "cleanup", "done"} \/ raised_in = "process_video_frames"

\* C15: the writer's (width, height) is the source's (height, width) when the
\* resolved rotation is 90 or 270 and the source's (width, height) when it is
\* 0 or 180, and every frame written has the writer's width and height.
C15_WriterDimensionsFollowRotation ==
    WriterCreated =>
        /\ rotation \in {90, 270} =>
              /\ video_properties.width = SourceHeight
              /\ video_properties.height = SourceWidth
        /\ rotation \in {0, 180} =>
              /\ video_properties.width = SourceWidth
              /\ video_properties.height = SourceHeight
        /\ \A i \in DOMAIN written :
              /\ written[i].w = video_properties.width
              /\ written[i].h = video_properties.height

\* A run with rotation 90 on a source that is not square has written a frame
\* with an overlay and a frame without.
C15_Witness ==
    /\ WriterCreated
    /\ rotation = 90
    /\ SourceWidth # SourceHeight
    /\ \E i \in DOMAIN written : written[i].lines # {}
    /\ \E i \in DOMAIN written : written[i].lines = {} /\ written[i].circles = {}

\* C16: the frame rate the writer was created with is the frame rate of the
\* source.
C16_WriterFpsMatchesSource ==
    WriterCreated => video_properties.fps * 100 = cap_fps


\* C21: when the pose data file does not exist, or no source video is found,
\* generate_overlay_video raises FileNotFoundError and returns no path.
C21_NotFoundSurfacesAsFileNotFound ==
    (result # "none" /\ (~pose_file.exists \/ raised_in = "find_original_video")) =>
        result = "FileNotFoundError"

\* C22: when the writer of setup_video_writer or the capture of
\* process_video_frames fails to open, generate_overlay_video raises and no
\* file is left at the output path.
C22_ResourceUnavailableIsFatal ==
    ( /\ result # "none"
      /\ \/ raised_in = "setup_video_writer"
         \/ (pc \in {"done", "raised"} /\ video_properties # NoWriter /\ ~decoder_opened) ) =>
        /\ result # "returned"
        /\ output_file = "absent"

\* How far a run is from its end: the position in the pass, then the frames
\* the current loop still has to take.
PcRank ==
    CASE pc = "start" -> 8
      [] pc = "detect" -> 7
      [] pc = "ready" -> 6
      [] pc = "find" -> 5
      [] pc = "setup" -> 4
      [] pc = "open" -> 3
      [] pc = "streaming" -> 2
      [] pc = "cleanup" -> 1
      [] OTHER -> 0

Remaining ==
    CASE pc = "detect" -> Len(sampled_frames) - Len(pose_results)
      [] pc = "streaming" -> total_frames - frame_index
      [] OTHER -> 0

\* The loop of process_video_frames has a frame to take.
MoreFrames == pc = "streaming" /\ decoder_opened /\ frame_index < total_frames

\* C25: a run of generate_overlay_video ends, by returning or by raising:
\* every step brings it closer to the end and, until it has ended, there is
\* a step to take.  Up to there: a frame is written only while the writer is
\* open, which it becomes only in setup_video_writer, where the rotation is
\* resolved; no frame is written once the source has reported no more
\* frames; the writer is released only then; and the path is returned only
\* with the writer (and the capture) released.
C25_RunFollowsStateOrder ==
    /\ [][ /\ written' # written => (writer_open /\ pc = "streaming" /\ WriterCreated)
           /\ (~writer_open /\ writer_open') => pc = "setup"
           /\ (writer_open /\ ~writer_open') => pc = "cleanup"
           /\ pc \in {"cleanup", "done"} => written' = written
           /\ result' = "returned" => (~writer_open' /\ ~cap_open' /\ pc \in {"cleanup", "done"})
           /\ \/ PcRank' < PcRank
              \/ PcRank' = PcRank /\ Remaining' < Remaining
         ]_vars
    /\ [](Remaining >= 0)
    /\ [](result = "none" =>
            \/ MoreFrames
            \/ ENABLED (ReadVideoFrames \/ ProcessFrameWithPose \/ SavePoseData \/ LoadPoseData
                            \/ FindOriginalVideo \/ SetupVideoWriter \/ OpenCapture \/ Drained
                            \/ CleanupAndReturn))
    /\ [](result # "none" <=> PcRank = 0)

\* A run has gone through all four states: it wrote two frames, one of them
\* with an overlay, and returned the path.
C25_Witness ==
    /\ result = "returned"
    /\ Len(written) >= 2
    /\ \E i \in DOMAIN written : written[i].lines # {}

\* C29: process_frames_with_pose appends one record per frame of the sampled
\* list, in order, the record of frame i carrying frame_index i, also after
\* a frame on which detection raised: that frame's record has pose_detected
\* false and no landmarks.
C29_OneResultPerFrame ==
    /\ Len(pose_results) <= Len(sampled_frames)
    /\ pose_origin = "pipeline" => Len(pose_results) = Len(sampled_frames)
    /\ \A i \in DOMAIN pose_results :
          /\ pose_results[i].frame_index = i - 1
          /\ pose_results[i].detected_from = sampled_frames[i]
          /\ "error" \in DOMAIN pose_results[i] =>
                /\ ~pose_results[i].pose_detected
                /\ pose_results[i].landmarks = <<>>

\* Detection raised on the first of two sampled frames and found a pose in
\* the second; both records are in the list that was saved.
C29_Witness ==
    /\ pose_origin = "pipeline"
    /\ Len(pose_results) = 2
    /\ "error" \in DOMAIN pose_results[1]
    /\ pose_results[2].pose_detected
    /\ pose_results[2].frame_index = 1


-----------------------------------------------------------------------------
(* motion_tracer.py: MotionTracer *)

MaxHistory     == 2   \* add_position is called while the history is shorter
MaxTracerFrame == 4   \* frame indexes handed to the tracer: 0..MaxTracerFrame
MaxAge         == 2   \* ages handed to get_fade_opacity: 0..MaxAge and around max_age_frames

\* Frame rates (hundredths of a frame per second) and persistences (tenths of a second; 20 is the
\* default 2.0).  Every persistence is a power of two, so the float product
\* fps * persistence_seconds is the exact product.
FpsValues         == {40, 150, 2997}
PersistenceValues == {5, 10, 20}
TrailPixels       == { <<1, 1>> }

\* int(fps * persistence_seconds)
MaxAgeFrames(f, p) == Trunc(f * p, 1000)

\* add_position's clean-up without the age test: nothing is ever evicted.
WithinWindow_KeepsAll(history, current_frame, max_age) == history

\* The list comprehension of add_position and of get_active_trail: the
\* points whose age at current_frame is at most max_age, in order.
WithinWindow(history, current_frame, max_age) ==
    LET keep(pt) == (current_frame - pt[3]) <= max_age
    IN  SelectSeq(history, keep)

\* get_active_trail without its age test: the stored history as it is.
get_active_trail_ReturnsHistory(history, current_frame_index, max_age) == history

get_active_trail(history, current_frame_index, max_age) ==
    WithinWindow(history, current_frame_index, max_age)

\* A fade that grows with age: frame_age / max_age.
get_fade_opacity_Inverted(frame_age, max_age) ==
    IF frame_age >= max_age THEN <<1, 1>> ELSE <<frame_age, max_age>>

\* 1.0 - frame_age / max_age as the rational <<n, d>>; 0.0 is <<0, 1>>.
get_fade_opacity(frame_age, max_age) ==
    IF frame_age >= max_age THEN <<0, 1>>
    ELSE LET opacity == <<max_age - frame_age, max_age>>
         IN  IF opacity[1] < 0 THEN <<0, 1>> ELSE opacity

\* The hip test with "and" for "or": one confident hip is enough.
HipConfidenceTooLow_BothLow(left_confidence, right_confidence) ==
    left_confidence < 30 /\ right_confidence < 30

HipConfidenceTooLow(left_confidence, right_confidence) ==
    left_confidence < 30 \/ right_confidence < 30

\* (a + b) / 2 for rationals a and b.
RMid(a, b) == <<a[1] * b[2] + b[1] * a[2], 2 * a[2] * b[2]>>

calculate_hip_midpoint(landmarks_json, image_shape) ==
    IF Len(landmarks_json) <= 24 THEN None
    ELSE LET left_hip  == landmarks_json[24]
             right_hip == landmarks_json[25]
         IN  IF HipConfidenceTooLow(Visibility(left_hip), Visibility(right_hip)) THEN None
             ELSE IF \E k \in {"x", "y"} : k \notin DOMAIN left_hip \/ k \notin DOMAIN right_hip
                  THEN None      \* KeyError, caught
                  ELSE LET mid_x == RMid(left_hip.x, right_hip.x)
                           mid_y == RMid(left_hip.y, right_hip.y)
                           pixel_x == Trunc(mid_x[1] * image_shape[2], mid_x[2])
                           pixel_y == Trunc(mid_y[1] * image_shape[1], mid_y[2])
                       IN  IF /\ 0 <= pixel_x /\ pixel_x < image_shape[2]
                              /\ 0 <= pixel_y /\ pixel_y < image_shape[1]
                           THEN <<pixel_x, pixel_y>>
                           ELSE None

\* Landmark sets handed to calculate_hip_midpoint: the two hips vary.
HipLandmarks(left_hip, right_hip) ==
    [i \in 1..33 |-> IF i = 24 THEN left_hip
                     ELSE IF i = 25 THEN right_hip
                     ELSE DetectedLandmarks(0)[i]]

HipInputs ==
    { HipLandmarks([x |-> lx, y |-> <<1, 2>>, visibility |-> lv],
                   [x |-> <<3, 4>>, y |-> <<1, 2>>, visibility |-> rv]) :
        lx \in { <<1, 4>>, <<7, 4>> }, lv \in {20, 30, 90}, rv \in {29, 90} }
    \cup
    { HipLandmarks([x |-> <<-5, 4>>, y |-> <<1, 2>>, visibility |-> 90],
                   [x |-> <<3, 4>>, y |-> <<1, 2>>, visibility |-> 90]),
      HipLandmarks([x |-> <<1, 4>>, y |-> <<1, 2>>],
                   [x |-> <<3, 4>>, y |-> <<1, 2>>, visibility |-> 90]),
      HipLandmarks([y |-> <<1, 2>>, visibility |-> 90],
                   [x |-> <<3, 4>>, y |-> <<1, 2>>, visibility |-> 90]),
      SubSeq(DetectedLandmarks(0), 1, 24) }

InitTracer ==
    /\ TracerIdle
    /\ PipeIdle /\ RenderIdle /\ CoordsIdle /\ ResolverIdle /\ UploadIdle

\* MotionTracer.__init__
MotionTracerInit ==
    /\ tpc = "new"
    /\ \E f \in FpsValues, p \in PersistenceValues :
         /\ fps' = f
         /\ persistence_seconds' = p
         /\ max_age_frames' = MaxAgeFrames(f, p)
    /\ position_history' = <<>>
    /\ tpc' = "live"
    /\ UNCHANGED <<last_call, last_return>>
    /\ UNCHANGED <<pipeVars, renderVars, coordVars, resolverVars, uploadVars>>

\* MotionTracer.add_position.  The last element of last_call is not an
\* argument: it counts the points this call evicted.
AddPosition ==
    /\ tpc = "live"
    /\ Len(position_history) < MaxHistory
    /\ \E xy \in TrailPixels, f \in 0..MaxTracerFrame :
         LET appended == Append(position_history, <<xy[1], xy[2], f>>)
             kept     == WithinWindow(appended, f, max_age_frames)
         IN  /\ position_history' = kept
             /\ last_call' = <<"add_position", xy[1], xy[2], f, Len(appended) - Len(kept)>>
             /\ last_return' = None
    /\ UNCHANGED <<tpc, fps, persistence_seconds, max_age_frames>>
    /\ UNCHANGED <<pipeVars, renderVars, coordVars, resolverVars, uploadVars>>

\* MotionTracer.get_active_trail
GetActiveTrail ==
    /\ tpc = "live"
    /\ \E c \in 0..(MaxTracerFrame + 1) :
         /\ last_call' = <<"get_active_trail", c>>
         /\ last_return' = get_active_trail(position_history, c, max_age_frames)
    /\ UNCHANGED <<tpc, fps, persistence_seconds, max_age_frames, position_history>>
    /\ UNCHANGED <<pipeVars, renderVars, coordVars, resolverVars, uploadVars>>

\* MotionTracer.get_fade_opacity
GetFadeOpacity ==
    /\ tpc = "live"
    /\ \E a \in (0..MaxAge) \cup
                { b \in {max_age_frames - 1, max_age_frames, max_age_frames + 1} : b >= 0 } :
         /\ last_call' = <<"get_fade_opacity", a>>
         /\ last_return' = get_fade_opacity(a, max_age_frames)
    /\ UNCHANGED <<tpc, fps, persistence_seconds, max_age_frames, position_history>>
    /\ UNCHANGED <<pipeVars, renderVars, coordVars, resolverVars, uploadVars>>

\* MotionTracer.calculate_hip_midpoint
CalculateHipMidpoint ==
    /\ tpc = "live"
    /\ \E lm \in HipInputs :
         /\ last_call' = <<"calculate_hip_midpoint", lm, <<SourceHeight, SourceWidth>> >>
         /\ last_return' = calculate_hip_midpoint(lm, <<SourceHeight, SourceWidth>>)
    /\ UNCHANGED <<tpc, fps, persistence_seconds, max_age_frames, position_history>>
    /\ UNCHANGED <<pipeVars, renderVars, coordVars, resolverVars, uploadVars>>

NextTracer ==
    \/ MotionTracerInit
    \/ AddPosition
    \/ GetActiveTrail
    \/ GetFadeOpacity
    \/ CalculateHipMidpoint

SpecTracer == InitTracer /\ [][NextTracer]_vars


-----------------------------------------------------------------------------
(* Properties of the MotionTracer (SpecTracer) *)

\* a <= b for rationals with positive denominators.
RLeq(a, b) == a[1] * b[2] <= b[1] * a[2]

\* C6: right after add_position(x, y, f) the history holds no point older
\* than max_age_frames at f, and get_active_trail(c) returns no point older
\* than max_age_frames at c.
C6_NoPointOlderThanWindow ==
    /\ last_call[1] = "add_position" =>
          \A i \in DOMAIN position_history :
              last_call[4] - position_history[i][3] <= max_age_frames
    /\ last_call[1] = "get_active_trail" =>
          \A i \in DOMAIN last_return :
              last_call[2] - last_return[i][3] <= max_age_frames

\* An add_position call has evicted a point and left another in the history.
C6_Witness ==
    /\ last_call[1] = "add_position"
    /\ last_call[5] >= 1
    /\ Len(position_history) >= 1

\* floor(n / d) for d > 0.
Floor(n, d) == n \div d

\* C8: calculate_hip_midpoint returns a point only when both hips have
\* visibility >= 0.3; with a hip below 0.3 it returns None; with both at or
\* above 0.3 and the pixel that holds the midpoint of the two hips inside the
\* frame, it returns that pixel.
C8_HipMidpointNeedsBothHips ==
    last_call[1] = "calculate_hip_midpoint" =>
        LET lm == last_call[2]
            h  == last_call[3][1]
            w  == last_call[3][2]
            present == Len(lm) >= 25
            both    == /\ present
                       /\ "visibility" \in DOMAIN lm[24] /\ lm[24].visibility >= 30
                       /\ "visibility" \in DOMAIN lm[25] /\ lm[25].visibility >= 30
            located == /\ present
                       /\ {"x", "y"} \subseteq DOMAIN lm[24]
                       /\ {"x", "y"} \subseteq DOMAIN lm[25]
            mx == Floor(w * (lm[24].x[1] * lm[25].x[2] + lm[25].x[1] * lm[24].x[2]),
                        2 * lm[24].x[2] * lm[25].x[2])
            my == Floor(h * (lm[24].y[1] * lm[25].y[2] + lm[25].y[1] * lm[24].y[2]),
                        2 * lm[24].y[2] * lm[25].y[2])
        IN  /\ last_return # None => both
            /\ ~both => last_return = None
            /\ (both /\ located /\ 0 <= mx /\ mx < w /\ 0 <= my /\ my < h) =>
                  last_return = <<mx, my>>

\* The spec's scenario, one hip below 0.3 and the other well above, has
\* returned None; the hips were located and their midpoint is in the frame.
C8_Witness ==
    /\ last_call[1] = "calculate_hip_midpoint"
    /\ Len(last_call[2]) >= 25
    /\ {"x", "visibility"} \subseteq DOMAIN last_call[2][24]
    /\ last_call[2][24].visibility = 20
    /\ last_call[2][25].visibility = 90
    /\ last_call[2][24].x = <<1, 4>>
    /\ last_return = None


FadeCall(call) == call[1] = "get_fade_opacity"

\* C9 as claimed: for every tracer, get_fade_opacity(0) is 1.0,
\* get_fade_opacity(max_age_frames) is 0.0, and of two calls the one with the
\* larger age never returns the larger opacity.
C9_Original ==
    [][ FadeCall(last_call') =>
          /\ last_call'[2] = 0 => last_return'[1] = last_return'[2]
          /\ last_call'[2] = max_age_frames' => last_return'[1] = 0
          /\ (FadeCall(last_call) /\ last_call[2] <= last_call'[2]) =>
                RLeq(last_return', last_return)
          /\ (FadeCall(last_call) /\ last_call[2] >= last_call'[2]) =>
                RLeq(last_return, last_return')
      ]_vars

\* C9 as amended: get_fade_opacity(0) is 1.0 for every tracer whose
\* max_age_frames is at least 1 and 0.0 when max_age_frames is 0;
\* get_fade_opacity(max_age_frames) is 0.0 and the opacity is non-increasing
\* in the age for every tracer.
C9_FadeOpacityBoundaries ==
    [][ FadeCall(last_call') =>
          /\ (last_call'[2] = 0 /\ max_age_frames' >= 1) =>
                last_return'[1] = last_return'[2]
          /\ (last_call'[2] = 0 /\ max_age_frames' = 0) => last_return'[1] = 0
          /\ last_call'[2] = max_age_frames' => last_return'[1] = 0
          /\ (FadeCall(last_call) /\ last_call[2] <= last_call'[2]) =>
                RLeq(last_return', last_return)
          /\ (FadeCall(last_call) /\ last_call[2] >= last_call'[2]) =>
                RLeq(last_return, last_return')
      ]_vars

\* A tracer with a window of at least two frames has been asked for the
\* opacity at an age strictly inside the window and returned a value strictly
\* between 0 and 1.
C9_Witness ==
    /\ tpc = "live"
    /\ max_age_frames >= 2
    /\ FadeCall(last_call)
    /\ 0 < last_call[2] /\ last_call[2] < max_age_frames
    /\ 0 < last_return[1] /\ last_return[1] < last_return[2]

\* Python's round(n / d) for n >= 0, d > 0: to the nearest integer, a tie to
\* the even one.
PyRound(n, d) ==
    LET q == n \div d
        r == n % d
    IN  IF 2 * r < d THEN q
        ELSE IF 2 * r > d THEN q + 1
        ELSE IF q % 2 = 0 THEN q ELSE q + 1

\* C10: max_age_frames is fps * persistence_seconds rounded to the nearest
\* whole frame.
C10_MaxAgeIsRounded ==
    tpc = "live" => max_age_frames = PyRound(fps * persistence_seconds, 1000)


\* C26 as stated: whatever the current frame, get_active_trail returns the
\* stored position_history, whole and in order.
C26_Original ==
    last_call[1] = "get_active_trail" => last_return = position_history

\* C26 as amended: get_active_trail(current_frame_index) returns, in recording
\* order, the stored points whose age at current_frame_index is at most
\* max_age_frames; that is the whole position_history when
\* current_frame_index is not after the frame of the latest add_position.
C26_ActiveTrailIsHistoryWithinWindow ==
    last_call[1] = "get_active_trail" =>
        LET c      == last_call[2]
            inside == { i \in DOMAIN position_history :
                          c - position_history[i][3] <= max_age_frames }
            n      == Len(position_history)
        IN  /\ Len(last_return) = Cardinality(inside)
            /\ \A k \in DOMAIN last_return :
                  \E i \in inside :
                      /\ last_return[k] = position_history[i]
                      /\ Cardinality({ j \in inside : j < i }) = k - 1
            /\ (n > 0 /\ c <= position_history[n][3]) => last_return = position_history

\* A tracer holding two points was asked for the trail at a frame where the
\* older point is outside the window and the newer one inside.
C26_Witness ==
    /\ last_call[1] = "get_active_trail"
    /\ Len(position_history) = 2
    /\ last_call[2] - position_history[1][3] > max_age_frames
    /\ last_call[2] - position_history[2][3] <= max_age_frames
    /\ last_return = <<position_history[2]>>

-----------------------------------------------------------------------------
(* The skeleton renderer on one landmark set (SpecRender) *)

\* Landmark sets handed to the renderer: the two endpoints of one connection
\* vary in position (inside the frame, right of it) and in visibility; also
\* a short set, an empty one and a structurally invalid one.
ProbeLandmarks ==
    { [x |-> px, y |-> <<1, 2>>, visibility |-> v] :
        px \in { <<1, 4>>, <<5, 4>> }, v \in {0, 50, 90} }

RenderInputs ==
    { [i \in 1..33 |-> IF i = POSE_CONNECTIONS[c][1] + 1 THEN a
                       ELSE IF i = POSE_CONNECTIONS[c][2] + 1 THEN b
                       ELSE DetectedLandmarks(0)[i]] :
        c \in DOMAIN POSE_CONNECTIONS, a \in ProbeLandmarks, b \in ProbeLandmarks }
    \cup { SubSeq(DetectedLandmarks(0), 1, 13), <<>>, InvalidLandmarks }

InitRender ==
    /\ rpc = "input"
    /\ r_landmarks \in RenderInputs
    /\ r_image = SourceFrame(0)
    /\ PipeIdle /\ TracerIdle /\ CoordsIdle /\ ResolverIdle /\ UploadIdle

\* draw_skeleton_connections(image, landmarks_json)
DrawSkeletonConnections ==
    /\ rpc = "input"
    /\ LET drawn == draw_skeleton_connections(r_image, r_landmarks) IN
         IF drawn.ok
         THEN /\ r_image' = drawn.val
              /\ rpc' = "drawn"
         ELSE /\ rpc' = "raised"
              /\ UNCHANGED r_image
    /\ UNCHANGED r_landmarks
    /\ UNCHANGED <<pipeVars, tracerVars, coordVars, resolverVars, uploadVars>>

NextRender ==
    \/ DrawSkeletonConnections

SpecRender == InitRender /\ [][NextRender]_vars

-----------------------------------------------------------------------------
(* Properties of the renderer (SpecRender) *)

\* Landmark i (numbered as in the code) of the rendered set lies in the frame.
InFrame(i) ==
    /\ i < Len(r_landmarks)
    /\ 0 <= r_landmarks[i + 1].x[1] /\ r_landmarks[i + 1].x[1] < r_landmarks[i + 1].x[2]
    /\ 0 <= r_landmarks[i + 1].y[1] /\ r_landmarks[i + 1].y[1] < r_landmarks[i + 1].y[2]

\* The pixel of the frame that holds landmark i.
PixelOf(i) ==
    << Floor(r_landmarks[i + 1].x[1] * r_image.w, r_landmarks[i + 1].x[2]),
       Floor(r_landmarks[i + 1].y[1] * r_image.h, r_landmarks[i + 1].y[2]) >>

\* The segment between the pixels of landmarks a and b is on the image.
SegmentDrawn(a, b) == <<PixelOf(a), PixelOf(b)>> \in r_image.lines

\* C7: there is a confidence threshold such that, of the connections whose
\* two endpoints lie in the frame, the renderer has drawn exactly those whose
\* two endpoints both have a visibility at or above it.
C7_ConnectionDrawnIffBothConfident ==
    rpc = "drawn" =>
        \E threshold \in 1..100 :
            \A c \in DOMAIN POSE_CONNECTIONS :
                LET a == POSE_CONNECTIONS[c][1]
                    b == POSE_CONNECTIONS[c][2]
                IN  (InFrame(a) /\ InFrame(b)) =>
                        (SegmentDrawn(a, b) <=>
                            /\ r_landmarks[a + 1].visibility >= threshold
                            /\ r_landmarks[b + 1].visibility >= threshold)


-----------------------------------------------------------------------------
(* The coordinate transformer and draw_skeleton_overlay on a heap           *)
(* (SpecCoords).  Python passes images, lists and dicts by reference: the   *)
(* heap holds every object, a list of landmarks is a sequence of references *)
(* to dicts, and a call that draws on an image stores the drawn image under *)
(* the reference it was given.                                              *)

ImageRef     == 1    \* the image handed to the call
LandmarksRef == 2    \* the landmark list handed to the call

\* The landmarks as save_pose_data stores them: name, x, y, z, visibility.
FullLandmarks(src) ==
    [i \in 1..33 |-> [name |-> IF i = 1 THEN "nose" ELSE "body",
                      x |-> DetectedLandmarks(src)[i].x,
                      y |-> DetectedLandmarks(src)[i].y,
                      z |-> <<-i, 100>>,
                      visibility |-> DetectedLandmarks(src)[i].visibility]]

\* Landmarks 0, 11 and 12 lie right of the frame, a fraction of a pixel left
\* of it, and on its right border.
OutOfFrameLandmarks ==
    [i \in 1..33 |-> IF i = 1 THEN [FullLandmarks(0)[i] EXCEPT !.x = <<5, 4>>]
                     ELSE IF i = 12 THEN [FullLandmarks(0)[i] EXCEPT !.x = <<-1, 8>>]
                     ELSE IF i = 13 THEN [FullLandmarks(0)[i] EXCEPT !.x = <<1, 1>>]
                     ELSE FullLandmarks(0)[i]]

CoordInputs ==
    { FullLandmarks(src) : src \in 0..3 }
    \cup { OutOfFrameLandmarks, SubSeq(FullLandmarks(1), 1, 13), <<>>, InvalidLandmarks }

\* image.shape of a frame of shape original_shape after cv2.rotate by rot.
RotatedShape(original_shape, rot) ==
    IF rot \in {90, 270} THEN <<original_shape[2], original_shape[1]>>
    ELSE original_shape

\* The objects before a call: the (rotated) frame, the landmark list, and one
\* dict per landmark.
InitialHeap(landmarks_json, original_shape, rot) ==
    << [h |-> RotatedShape(original_shape, rot)[1],
        w |-> RotatedShape(original_shape, rot)[2],
        src |-> 0, rot |-> rot, lines |-> {}, circles |-> {}],
       [i \in 1..Len(landmarks_json) |-> i + 2] >> \o landmarks_json

\* The landmark dicts a list refers to.
Deref(h, ref) == [i \in DOMAIN h[ref] |-> h[h[ref][i]]]

\* A "copy" that hands the same object back.
image_copy_Alias(h, ref) == [heap |-> h, ref |-> ref]

\* image.copy(): a new object with the same pixels.
image_copy(h, ref) == [heap |-> Append(h, h[ref]), ref |-> Len(h) + 1]

\* rotate_landmark_coordinates writing into the dicts it was given (no
\* landmark.copy()).
RotateLandmarkCoordinatesOnHeap_InPlace(h, ref, rot, original_shape, rotated_shape) ==
    LET r == rotate_landmark_coordinates(Deref(h, ref), rot, original_shape, rotated_shape)
        n == Len(h[ref])
    IN  IF rot = 0 THEN [ok |-> TRUE, heap |-> h, ref |-> ref]
        ELSE IF ~r.ok THEN [ok |-> FALSE, heap |-> h, ref |-> ref]
        ELSE [ok |-> TRUE,
              heap |-> Append([j \in DOMAIN h |->
                                  IF \E i \in 1..n : h[ref][i] = j
                                  THEN r.val[CHOOSE i \in 1..n : h[ref][i] = j]
                                  ELSE h[j]],
                              h[ref]),
              ref |-> Len(h) + 1]

\* rotate_landmark_coordinates on objects: rotation 0 returns the list it was
\* given; otherwise every dict is copied, the copy gets the new x and y, and
\* the copies are collected in a new list.
RotateLandmarkCoordinatesOnHeap(h, ref, rot, original_shape, rotated_shape) ==
    LET r == rotate_landmark_coordinates(Deref(h, ref), rot, original_shape, rotated_shape)
        n == Len(h[ref])
    IN  IF rot = 0 THEN [ok |-> TRUE, heap |-> h, ref |-> ref]
        ELSE IF ~r.ok THEN [ok |-> FALSE, heap |-> h, ref |-> ref]
        ELSE [ok |-> TRUE,
              heap |-> (h \o r.val) \o << [i \in 1..n |-> Len(h) + i] >>,
              ref |-> Len(h) + n + 1]

InitCoords ==
    /\ cpc = "input"
    /\ c_rotation \in ROTATIONS
    /\ c_shape \in { <<SourceHeight, SourceWidth>>, <<SourceWidth, SourceHeight>> }
    /\ \E lm \in CoordInputs : heap = InitialHeap(lm, c_shape, c_rotation)
    /\ heap0 = heap
    /\ c_index = 0
    /\ c_return = None
    /\ PipeIdle /\ TracerIdle /\ RenderIdle /\ ResolverIdle /\ UploadIdle

\* rotate_landmark_coordinates(landmarks_json, rotation, original_shape,
\* rotated_shape), the rotated shape being that of the rotated frame.
RotateLandmarkCoordinates ==
    /\ cpc = "input"
    /\ LET r == RotateLandmarkCoordinatesOnHeap(heap, LandmarksRef, c_rotation, c_shape,
                                                RotatedShape(c_shape, c_rotation))
       IN  /\ heap' = r.heap
           /\ c_return' = r.ref
           /\ cpc' = IF r.ok THEN "rotated" ELSE "rotate_raised"
    /\ UNCHANGED <<heap0, c_rotation, c_shape, c_index>>
    /\ UNCHANGED <<pipeVars, tracerVars, renderVars, resolverVars, uploadVars>>

\* rotate_landmark_coordinates applied to what the first call returned, with
\* the inverse rotation and the two shapes swapped back.
RotateBack ==
    /\ cpc = "rotated"
    /\ LET r == RotateLandmarkCoordinatesOnHeap(heap, c_return, (360 - c_rotation) % 360,
                                                RotatedShape(c_shape, c_rotation), c_shape)
       IN  /\ heap' = r.heap
           /\ c_return' = r.ref
           /\ cpc' = IF r.ok THEN "restored" ELSE "rotate_raised"
    /\ UNCHANGED <<heap0, c_rotation, c_shape, c_index>>
    /\ UNCHANGED <<pipeVars, tracerVars, renderVars, resolverVars, uploadVars>>

\* get_landmark_coords(landmarks_json, landmark_index, image.shape)
GetLandmarkCoords ==
    /\ cpc = "input"
    /\ \E i \in 0..33 :
         LET r == get_landmark_coords(Deref(heap, LandmarksRef), i,
                                      <<heap[ImageRef].h, heap[ImageRef].w>>)
         IN  /\ c_index' = i
             /\ IF r.ok THEN /\ c_return' = r.val
                             /\ cpc' = "looked_up"
                ELSE /\ c_return' = None
                     /\ cpc' = "lookup_raised"
    /\ UNCHANGED <<heap, heap0, c_rotation, c_shape>>
    /\ UNCHANGED <<pipeVars, tracerVars, renderVars, resolverVars, uploadVars>>

\* get_landmark_coords on the list rotate_landmark_coordinates returned,
\* against the shape of the rotated frame, as draw_skeleton_connections and
\* draw_skeleton_landmarks call it.
GetRotatedLandmarkCoords ==
    /\ cpc = "rotated"
    /\ \E i \in 0..33 :
         LET r == get_landmark_coords(Deref(heap, c_return), i,
                                      RotatedShape(c_shape, c_rotation))
         IN  /\ c_index' = i
             /\ IF r.ok THEN /\ c_return' = r.val
                             /\ cpc' = "rotated_looked_up"
                ELSE /\ c_return' = None
                     /\ cpc' = "lookup_raised"
    /\ UNCHANGED <<heap, heap0, c_rotation, c_shape>>
    /\ UNCHANGED <<pipeVars, tracerVars, renderVars, resolverVars, uploadVars>>

\* draw_skeleton_overlay(image, landmarks_json, rotation=rotation,
\* original_shape=original_shape): copy the image, rotate the landmarks when
\* rotation is not 0, draw connections and landmarks on the copy, return the
\* copy.  cv2.line and cv2.circle draw on the object they are given.  When a
\* call raises, what was drawn before is on the copy and is lost with it.
DrawSkeletonOverlay ==
    /\ cpc = "input"
    /\ LET copied == image_copy(heap, ImageRef)
           annotated_image == copied.ref
           rotated == IF c_rotation # 0 /\ c_shape # None
                      THEN RotateLandmarkCoordinatesOnHeap(
                               copied.heap, LandmarksRef, c_rotation, c_shape,
                               <<heap[ImageRef].h, heap[ImageRef].w>>)
                      ELSE [ok |-> TRUE, heap |-> copied.heap, ref |-> LandmarksRef]
           lined   == draw_skeleton_connections(rotated.heap[annotated_image],
                                                Deref(rotated.heap, rotated.ref))
           h_lined == [rotated.heap EXCEPT ![annotated_image] = lined.val]
           dotted  == draw_skeleton_landmarks(h_lined[annotated_image],
                                              Deref(h_lined, rotated.ref))
       IN  IF ~rotated.ok \/ ~lined.ok
           THEN /\ heap' = rotated.heap
                /\ c_return' = None
                /\ cpc' = "draw_raised"
           ELSE IF ~dotted.ok
           THEN /\ heap' = h_lined
                /\ c_return' = None
                /\ cpc' = "draw_raised"
           ELSE /\ heap' = [h_lined EXCEPT ![annotated_image] = dotted.val]
                /\ c_return' = annotated_image
                /\ cpc' = "drawn"
    /\ UNCHANGED <<heap0, c_rotation, c_shape, c_index>>
    /\ UNCHANGED <<pipeVars, tracerVars, renderVars, resolverVars, uploadVars>>

NextCoords ==
    \/ RotateLandmarkCoordinates
    \/ RotateBack
    \/ GetLandmarkCoords
    \/ GetRotatedLandmarkCoords
    \/ DrawSkeletonOverlay

SpecCoords == InitCoords /\ [][NextCoords]_vars


-----------------------------------------------------------------------------
(* Properties of the coordinate transformer (SpecCoords) *)

\* a = b for rationals.
REq(a, b) == a[1] * b[2] = b[1] * a[2]

\* The landmark lies in the frame: 0 <= x < 1 and 0 <= y < 1.
InBounds(landmark) ==
    /\ {"x", "y"} \subseteq DOMAIN landmark
    /\ 0 <= landmark.x[1] /\ landmark.x[1] < landmark.x[2]
    /\ 0 <= landmark.y[1] /\ landmark.y[1] < landmark.y[2]

\* C11: rotating the landmarks by r from the original shape to the rotated
\* shape and then by (360 - r) mod 360 from the rotated shape back to the
\* original one returns every in-bounds landmark to its original x and y.
C11_RotationRoundTrips ==
    cpc = "restored" =>
        LET original == Deref(heap0, LandmarksRef)
            restored == Deref(heap, c_return)
        IN  /\ Len(restored) = Len(original)
            /\ \A i \in DOMAIN original :
                  InBounds(original[i]) =>
                      /\ REq(restored[i].x, original[i].x)
                      /\ REq(restored[i].y, original[i].y)

\* A quarter turn of a non-square frame has been undone on a landmark that
\* is off both axes.
C11_Witness ==
    /\ cpc = "restored"
    /\ c_rotation = 90
    /\ c_shape[1] # c_shape[2]
    /\ \E i \in DOMAIN Deref(heap0, LandmarksRef) :
          LET lm == Deref(heap0, LandmarksRef)[i]
          IN  InBounds(lm) /\ lm.x[1] > 0 /\ lm.y[1] > 0 /\ ~REq(lm.x, lm.y)

\* C12: with W and H the width and height before rotation and (x, y) the
\* landmark's pixel position there, rotate_landmark_coordinates returns for
\* 90 the position (H - y, x), for 180 (W - x, H - y), for 270 (y, W - x),
\* each divided by the rotated frame's width and height; for 0 it returns
\* the list it was given.  Every other field of a landmark is as it was, and
\* no object that existed before the call has changed.
C12_RotationMapping ==
    cpc = "rotated" =>
        LET given    == Deref(heap0, LandmarksRef)
            returned == Deref(heap, c_return)
            H  == c_shape[1]
            W  == c_shape[2]
            rh == RotatedShape(c_shape, c_rotation)[1]
            rw == RotatedShape(c_shape, c_rotation)[2]
            x(i) == <<given[i].x[1] * W, given[i].x[2]>>
            y(i) == <<given[i].y[1] * H, given[i].y[2]>>
            Minus(k, r) == <<k * r[2] - r[1], r[2]>>
        IN  /\ c_rotation = 0 => c_return = LandmarksRef
            /\ Len(returned) = Len(given)
            /\ \A i \in DOMAIN given :
                  /\ DOMAIN returned[i] = DOMAIN given[i]
                  /\ \A k \in DOMAIN given[i] \ {"x", "y"} : returned[i][k] = given[i][k]
                  /\ c_rotation = 90 =>
                        /\ REq(RTimes(returned[i].x, rw), Minus(H, y(i)))
                        /\ REq(RTimes(returned[i].y, rh), x(i))
                  /\ c_rotation = 180 =>
                        /\ REq(RTimes(returned[i].x, rw), Minus(W, x(i)))
                        /\ REq(RTimes(returned[i].y, rh), Minus(H, y(i)))
                  /\ c_rotation = 270 =>
                        /\ REq(RTimes(returned[i].x, rw), y(i))
                        /\ REq(RTimes(returned[i].y, rh), Minus(W, x(i)))
            /\ \A ref \in DOMAIN heap0 : heap[ref] = heap0[ref]

\* 33 landmarks of a non-square frame have been rotated by 270 degrees into
\* a new list.
C12_Witness ==
    /\ cpc = "rotated"
    /\ c_rotation = 270
    /\ c_shape[1] # c_shape[2]
    /\ c_return # LandmarksRef
    /\ Len(heap[c_return]) = 33

\* int(n / d) for d > 0, said without computing it: the integer p between 0
\* and n / d that is less than one away from n / d.
IntOf(n, d) ==
    LET m == IF n < 0 THEN -n ELSE n
    IN  CHOOSE p \in (-m)..m :
            \/ n >= 0 /\ p * d <= n /\ n < (p + 1) * d
            \/ n < 0  /\ (p - 1) * d < n /\ n <= p * d

\* C13: get_landmark_coords returns None when the landmark index is not in
\* the list; for an index in the list it returns the integer pixel of the
\* landmark's x * width and y * height when that pixel lies in
\* [0, width) x [0, height) and None when it does not; so whatever it
\* returns other than None lies in [0, width) x [0, height).
C13_LandmarkCoordsInBounds ==
    cpc = "looked_up" =>
        LET landmarks_json == Deref(heap0, LandmarksRef)
            width  == heap0[ImageRef].w
            height == heap0[ImageRef].h
        IN  /\ c_index >= Len(landmarks_json) => c_return = None
            /\ c_return # None =>
                  /\ 0 <= c_return[1] /\ c_return[1] < width
                  /\ 0 <= c_return[2] /\ c_return[2] < height
            /\ c_index < Len(landmarks_json) =>
                  LET landmark == landmarks_json[c_index + 1]
                      px == IntOf(landmark.x[1] * width, landmark.x[2])
                      py == IntOf(landmark.y[1] * height, landmark.y[2])
                  IN  IF 0 <= px /\ px < width /\ 0 <= py /\ py < height
                      THEN c_return = <<px, py>>
                      ELSE c_return = None

\* A landmark that is in the list and whose pixel is outside the frame (x is
\* at or beyond the right border) has been looked up, and None returned.
C13_Witness ==
    /\ cpc = "looked_up"
    /\ c_index < Len(heap0[LandmarksRef])
    /\ LET landmark == Deref(heap0, LandmarksRef)[c_index + 1]
       IN  landmark.x[1] >= landmark.x[2]
    /\ c_return = None

\* C14: after draw_skeleton_overlay, returned or raised, the image and the
\* landmark list passed in, and every landmark dict of that list, are what
\* they were before the call; what is returned is another object, the frame
\* passed in with connections and landmarks drawn on it.
C14_OverlayNeverMutatesInput ==
    cpc \in {"drawn", "draw_raised"} =>
        /\ \A ref \in DOMAIN heap0 : heap[ref] = heap0[ref]
        /\ cpc = "drawn" =>
              /\ c_return \notin DOMAIN heap0
              /\ heap[c_return].h = heap0[ImageRef].h
              /\ heap[c_return].w = heap0[ImageRef].w
              /\ heap[c_return].src = heap0[ImageRef].src
              /\ heap0[ImageRef].lines \subseteq heap[c_return].lines
              /\ heap0[ImageRef].circles \subseteq heap[c_return].circles

\* A frame rotated by 90 degrees has been drawn on: the returned image
\* carries lines and circles, the image passed in carries none.
C14_Witness ==
    /\ cpc = "drawn"
    /\ c_rotation = 90
    /\ heap[c_return].lines # {} /\ heap[c_return].circles # {}
    /\ heap[ImageRef].lines = {} /\ heap[ImageRef].circles = {}


\* Where cv2.rotate puts the pixel (px, py) of a frame of height H and width
\* W: ROTATE_90_CLOCKWISE for 90, ROTATE_180 for 180,
\* ROTATE_90_COUNTERCLOCKWISE for 270.
Cv2RotatePixel(px, py, rot, H, W) ==
    CASE rot = 90  -> <<H - 1 - py, px>>
      [] rot = 180 -> <<W - 1 - px, H - 1 - py>>
      [] rot = 270 -> <<py, W - 1 - px>>
      [] OTHER     -> <<px, py>>

\* C27: for a rotation of 90, 180 or 270 and a landmark whose pixel lies in
\* the unrotated frame, get_landmark_coords on the rotated landmark against
\* the rotated frame returns a pixel, in bounds, and it is the pixel
\* cv2.rotate moved the landmark's source pixel to.
C27_RotatedLandmarkStaysVisible ==
    (cpc = "rotated_looked_up" /\ c_rotation \in {90, 180, 270}
        /\ c_index < Len(Deref(heap0, LandmarksRef))) =>
        LET landmark == Deref(heap0, LandmarksRef)[c_index + 1]
            H  == c_shape[1]
            W  == c_shape[2]
            px == IntOf(landmark.x[1] * W, landmark.x[2])
            py == IntOf(landmark.y[1] * H, landmark.y[2])
            rotated_shape == RotatedShape(c_shape, c_rotation)
        IN  (0 <= px /\ px < W /\ 0 <= py /\ py < H) =>
                /\ c_return # None
                /\ 0 <= c_return[1] /\ c_return[1] < rotated_shape[2]
                /\ 0 <= c_return[2] /\ c_return[2] < rotated_shape[1]
                /\ c_return = Cv2RotatePixel(px, py, c_rotation, H, W)

-----------------------------------------------------------------------------
(* overlay.py: the rotation resolver (SpecResolver).                        *)
(* A video is a record [metadata, iphone, generic]:                         *)
(*   metadata  [read, rotation]: whether av.open and streams.video[0]       *)
(*             succeeded, and getattr(stream, 'rotation', 0)                *)
(*   iphone    [fails, scores]: whether the body of                         *)
(*             detect_iphone_portrait_rotation raises, and the score it     *)
(*             sums for each of the four orientations                       *)
(*   generic   the same for detect_video_orientation_heuristic              *)

\* Rotation metadata: canonical, negative, beyond a full turn, not a
\* multiple of 90.  A stream without the attribute reads as 0.
MetadataRotations == {-90, 0, 45, 90, 180, 270, 360, 450}

\* Summed scores per orientation: below, at and just above both margins
\* against a 0-degree score of 100, with and without a tie or a higher score
\* elsewhere; 0 everywhere is a video no frame of which could be read.
ScoreTables ==
    { [a \in ROTATIONS |-> CASE a = 0   -> z
                             [] a = 90  -> q
                             [] a = 180 -> h
                             [] a = 270 -> t] :
        z \in {0, 100}, q \in {130, 131, 150, 151, 200}, h \in {0, 200}, t \in {0, 140} }
    \cup { [a \in ROTATIONS |-> 0] }

HeuristicOutcomes ==
    { [fails |-> FALSE, scores |-> sc] : sc \in ScoreTables }
    \cup { [fails |-> TRUE, scores |-> [a \in ROTATIONS |-> 0]] }

Videos ==
    { [metadata |-> [read |-> TRUE, rotation |-> m], iphone |-> i, generic |-> g] :
        m \in MetadataRotations, i \in HeuristicOutcomes, g \in HeuristicOutcomes }
    \cup
    { [metadata |-> [read |-> FALSE, rotation |-> 0], iphone |-> i, generic |-> g] :
        i \in HeuristicOutcomes, g \in HeuristicOutcomes }

\* max(orientations, key=orientations.get): the first key, in the order
\* 0, 90, 180, 270, that has the highest score.
BestOrientation(orientations) ==
    CHOOSE a \in ROTATIONS :
        /\ \A b \in ROTATIONS : orientations[b] <= orientations[a]
        /\ \A b \in ROTATIONS : b < a => orientations[b] < orientations[a]

\* The end of a heuristic with the failure let through: no except clause.
HeuristicResult_Uncaught(h, num, den) ==
    IF h.fails THEN Raise("Exception")
    ELSE LET best_orientation == BestOrientation(h.scores)
         IN  IF h.scores[best_orientation] * den > h.scores[0] * num
             THEN Ok(best_orientation)
             ELSE Ok(0)

\* The end of a heuristic with no margin: the best orientation always wins.
HeuristicResult_NoMargin(h, num, den) ==
    IF h.fails THEN Ok(0) ELSE Ok(BestOrientation(h.scores))

\* The end of both heuristics: the best orientation when its score is more
\* than num/den times the score of 0 degrees, else 0; 0 when the body raised.
HeuristicResult(h, num, den) ==
    IF h.fails THEN Ok(0)
    ELSE LET best_orientation == BestOrientation(h.scores)
             max_score  == h.scores[best_orientation]
             zero_score == h.scores[0]
         IN  IF max_score * den > zero_score * num
             THEN Ok(best_orientation)
             ELSE Ok(0)

\* max_score > zero_score * 1.5
detect_iphone_portrait_rotation(v) == HeuristicResult(v.iphone, 3, 2)

\* max_score > zero_score * 1.3
detect_video_orientation_heuristic(v) == HeuristicResult(v.generic, 13, 10)

\* rotation % 360, then anything but 0, 90, 180, 270 becomes 0.
NormalizedRotation(m) == IF (m % 360) \in ROTATIONS THEN m % 360 ELSE 0

\* One entry of the record of heuristics called: which, and what it returned
\* (-1 when it raised).
Consulted(heuristic, r) ==
    [heuristic |-> heuristic, returned |-> IF r.ok THEN r.val ELSE -1]

\* The except clause of get_video_rotation: whatever was raised in the try
\* block, return what the generic heuristic says.
RotationFallback(v, consulted_in_try) ==
    LET generic == detect_video_orientation_heuristic(v)
    IN  [result    |-> generic,
         consulted |-> Append(consulted_in_try, Consulted("generic", generic))]

\* get_video_rotation: what it comes to, and the heuristics it called.
get_video_rotation(v) ==
    LET rot     == NormalizedRotation(v.metadata.rotation)
        iphone  == detect_iphone_portrait_rotation(v)
        generic == detect_video_orientation_heuristic(v)
    IN  IF ~v.metadata.read THEN RotationFallback(v, <<>>)
        ELSE IF rot # 0 THEN [result |-> Ok(rot), consulted |-> <<>>]
        ELSE IF ~iphone.ok THEN RotationFallback(v, <<Consulted("iphone", iphone)>>)
        ELSE IF iphone.val # 0
             THEN [result |-> iphone, consulted |-> <<Consulted("iphone", iphone)>>]
        ELSE IF ~generic.ok
             THEN RotationFallback(v, <<Consulted("iphone", iphone),
                                        Consulted("generic", generic)>>)
        ELSE [result    |-> Ok(IF generic.val # 0 THEN generic.val ELSE rot),
              consulted |-> <<Consulted("iphone", iphone), Consulted("generic", generic)>>]

InitResolver ==
    /\ vpc = "input"
    /\ video \in Videos
    /\ consulted = <<>>
    /\ resolved = 0
    /\ PipeIdle /\ TracerIdle /\ RenderIdle /\ CoordsIdle /\ UploadIdle

\* One call of get_video_rotation(video_path).
GetVideoRotation ==
    /\ vpc = "input"
    /\ LET r == get_video_rotation(video)
       IN  /\ consulted' = r.consulted
           /\ IF r.result.ok
              THEN /\ resolved' = r.result.val
                   /\ vpc' = "resolved"
              ELSE /\ vpc' = "raised"
                   /\ UNCHANGED resolved
    /\ UNCHANGED video
    /\ UNCHANGED <<pipeVars, tracerVars, renderVars, coordVars, uploadVars>>

NextResolver ==
    \/ GetVideoRotation

SpecResolver == InitResolver /\ [][NextResolver]_vars

-----------------------------------------------------------------------------
(* Properties of the rotation resolver (SpecResolver) *)

\* C17: get_video_rotation never raises, and what it returns is 0, 90, 180
\* or 270.
C17_RotationAlwaysCanonical ==
    /\ vpc # "raised"
    /\ vpc = "resolved" => resolved \in {0, 90, 180, 270}

\* The metadata could not be read and the generic heuristic failed as well;
\* the call has returned.
C17_Witness ==
    /\ vpc = "resolved"
    /\ ~video.metadata.read
    /\ video.generic.fails

\* The heuristic's summed score for r is the highest of the four and more
\* than num/den times its score for 0 degrees.
Qualifies(h, r, num, den) ==
    /\ ~h.fails
    /\ \A a \in {0, 90, 180, 270} : h.scores[a] <= h.scores[r]
    /\ h.scores[r] * den > h.scores[0] * num

\* C18: when the metadata was read and its normalized rotation is 0, a
\* resolved rotation r other than 0 is one for which the iPhone heuristic's
\* score is its highest and more than 1.5 times its 0-degree score, or the
\* generic heuristic's score is its highest and more than 1.3 times its
\* 0-degree score; with iPhone scores 0: 100, 90: 200 and the others lower
\* the resolved rotation is 90.
C18_MarginRule ==
    ( /\ vpc = "resolved"
      /\ video.metadata.read
      /\ (video.metadata.rotation % 360) \notin {90, 180, 270} ) =>
        /\ resolved # 0 =>
              \/ Qualifies(video.iphone, resolved, 3, 2)
              \/ Qualifies(video.generic, resolved, 13, 10)
        /\ ( /\ ~video.iphone.fails
             /\ video.iphone.scores[0] = 100 /\ video.iphone.scores[90] = 200
             /\ video.iphone.scores[180] < 200 /\ video.iphone.scores[270] < 200 )
           => resolved = 90

\* Metadata 0; both heuristics score 90 degrees highest and exactly at their
\* margins (150 and 130 against 100): the resolved rotation is 0.
C18_Witness ==
    /\ vpc = "resolved"
    /\ video.metadata.read /\ video.metadata.rotation = 0
    /\ ~video.iphone.fails /\ ~video.generic.fails
    /\ video.iphone.scores[0] = 100 /\ video.iphone.scores[90] = 150
    /\ video.iphone.scores[180] = 0 /\ video.iphone.scores[270] = 140
    /\ video.generic.scores[0] = 100 /\ video.generic.scores[90] = 130
    /\ video.generic.scores[180] = 0 /\ video.generic.scores[270] = 0
    /\ resolved = 0

\* C19: metadata that is 90, 180 or 270 modulo 360 is returned as is with no
\* heuristic consulted; a heuristic is consulted only when the metadata was
\* read and is 0 after normalization (any other value counting as 0); the
\* generic heuristic is consulted only after the iPhone one, which returned 0.
C19_MetadataTakesPrecedence ==
    vpc = "resolved" =>
        LET m == video.metadata.rotation % 360
        IN  /\ (video.metadata.read /\ m \in {90, 180, 270}) =>
                  resolved = m /\ consulted = <<>>
            /\ consulted # <<>> =>
                  video.metadata.read /\ m \notin {90, 180, 270}
            /\ \A k \in DOMAIN consulted :
                  consulted[k].heuristic = "generic" =>
                      /\ k = 2
                      /\ consulted[1] = [heuristic |-> "iphone", returned |-> 0]

\* C20: when the rotation metadata could not be read, get_video_rotation
\* returns 0.
C20_FailureFallsBackToZero ==
    (vpc = "resolved" /\ ~video.metadata.read) => resolved = 0


-----------------------------------------------------------------------------
(* routes.py, upload.py, file_utils.py, analysis_storage.py: the upload    *)
(* endpoint (SpecUpload).  A string is a sequence of one-character         *)
(* strings.  A path is a record [dir, name].  A directory is a function    *)
(* from file names to files; a file there is [owner, complete]: the id of  *)
(* the request that wrote it and whether the whole content was written.    *)
(* The content of an upload is [start, head]: how its bytes start and      *)
(* which markers occur among its first 20 bytes.                           *)

MaxUploads == 2   \* requests analyze_video serves
IdLength   == 9   \* characters of an analysis id (a uuid4 string has 36)

UpperCase == <<"A", "B", "C", "D", "E", "F", "G", "H", "I", "J", "K", "L", "M",
               "N", "O", "P", "Q", "R", "S", "T", "U", "V", "W", "X", "Y", "Z">>
LowerCase == <<"a", "b", "c", "d", "e", "f", "g", "h", "i", "j", "k", "l", "m",
               "n", "o", "p", "q", "r", "s", "t", "u", "v", "w", "x", "y", "z">>
Digits    == {"0", "1", "2", "3", "4", "5", "6", "7", "8", "9"}

\* str.lower()
LowerChar(c) ==
    IF \E i \in DOMAIN UpperCase : UpperCase[i] = c
    THEN LowerCase[CHOOSE i \in DOMAIN UpperCase : UpperCase[i] = c]
    ELSE c

Lower(s) == [i \in DOMAIN s |-> LowerChar(s[i])]

\* The index of the last "." of a name, 0 when it has none.
LastDot(s) ==
    IF \E i \in DOMAIN s : s[i] = "."
    THEN CHOOSE i \in DOMAIN s : s[i] = "." /\ \A j \in DOMAIN s : s[j] = "." => j <= i
    ELSE 0

\* Path(name).suffix and Path(name).stem of a name without directories: the
\* suffix starts at the last dot unless that dot is the first or the last
\* character.
Suffix(s) ==
    IF 1 < LastDot(s) /\ LastDot(s) < Len(s) THEN SubSeq(s, LastDot(s), Len(s)) ELSE <<>>

Stem(s) ==
    IF 1 < LastDot(s) /\ LastDot(s) < Len(s) THEN SubSeq(s, 1, LastDot(s) - 1) ELSE s

\* re.sub(r'[^a-zA-Z0-9\-_]', '_', original_name)
Sanitize(s) ==
    LET kept(c) == \/ \E i \in DOMAIN UpperCase : UpperCase[i] = c \/ LowerCase[i] = c
                   \/ c \in Digits \cup {"-", "_"}
    IN  [i \in DOMAIN s |-> IF kept(s[i]) THEN s[i] ELSE "_"]

\* s[:k]
Take(s, k) == SubSeq(s, 1, IF Len(s) < k THEN Len(s) ELSE k)

\* s.endswith(t)
EndsWith(s, t) == Len(t) <= Len(s) /\ SubSeq(s, Len(s) - Len(t) + 1, Len(s)) = t

MAX_FILE_SIZE == 100 * 1024 * 1024

ALLOWED_EXTENSIONS == { <<".", "m", "p", "4">>, <<".", "m", "o", "v">>, <<".", "a", "v", "i">> }

validate_file_extension(filename) ==
    IF filename = <<>> THEN FALSE ELSE Lower(Suffix(filename)) \in ALLOWED_EXTENSIONS

validate_file_size(file_size) == file_size <= MAX_FILE_SIZE

get_safe_filename(filename, id) ==
    LET file_ext       == Lower(Suffix(filename))
        original_name  == Stem(filename)
        sanitized_name == Sanitize(original_name)
        truncated_id   == Take(id, 8)
    IN  sanitized_name \o <<"_">> \o truncated_id \o file_ext

UploadPath(name) == [dir |-> "backend/static/uploads", name |-> name]

\* The signature test of validate_and_save_video.
is_valid_video(content) ==
    IF content.start = "\\x00\\x00\\x00" /\ "ftyp" \in content.head
    THEN {"mp42", "qt  ", "isom"} \cap content.head # {}
    ELSE content.start = "RIFF" /\ "AVI " \in content.head

Rejected(status_code, detail, dir) ==
    [ok |-> FALSE, status |-> status_code, detail |-> detail, file_path |-> NoPath, dir |-> dir]

\* open(file_path, "wb") and f.write(content) with the disk behaving as
\* `disk`: "ok", "open_fails" (no file is created) or "write_fails" (the
\* file is there, truncated).
SaveUpload(f, id, dir, disk) ==
    LET safe_filename == get_safe_filename(f.filename, id)
    IN  CASE disk = "ok" ->
               [ok |-> TRUE, status |-> 0, detail |-> "",
                file_path |-> UploadPath(safe_filename),
                dir |-> (safe_filename :> [owner |-> id, complete |-> TRUE]) @@ dir]
          [] disk = "open_fails" ->
               Rejected(500, "Failed to save uploaded file", dir)
          [] OTHER ->
               Rejected(500, "Failed to save uploaded file",
                        (safe_filename :> [owner |-> id, complete |-> FALSE]) @@ dir)

\* validate_and_save_video writing the file before it looks at the signature.
validate_and_save_video_SaveBeforeSignature(f, id, dir, disk) ==
    IF f.filename = <<>> THEN Rejected(400, "No filename provided", dir)
    ELSE IF ~validate_file_extension(f.filename)
    THEN Rejected(400, "Invalid file format. Allowed formats: MP4, MOV, AVI", dir)
    ELSE IF ~validate_file_size(f.size)
    THEN Rejected(400, "File too large. Maximum size: 50MB", dir)
    ELSE IF ~is_valid_video(f.content)
    THEN Rejected(400, "Invalid video file format detected", SaveUpload(f, id, dir, disk).dir)
    ELSE SaveUpload(f, id, dir, disk)

validate_and_save_video(f, id, dir, disk) ==
    IF f.filename = <<>> THEN Rejected(400, "No filename provided", dir)
    ELSE IF ~validate_file_extension(f.filename)
    THEN Rejected(400, "Invalid file format. Allowed formats: MP4, MOV, AVI", dir)
    ELSE IF ~validate_file_size(f.size)
    THEN Rejected(400, "File too large. Maximum size: 50MB", dir)
    ELSE IF ~is_valid_video(f.content)
    THEN Rejected(400, "Invalid video file format detected", dir)
    ELSE SaveUpload(f, id, dir, disk)

\* What find_original_video(analysis_id) can return on a directory holding
\* the names `names`: the glob visits them in no particular order and the
\* first match is returned; without a match the old-format names are tried
\* in the order .mov, .MOV, .mp4, .avi.
find_original_video(names, id) ==
    LET mov == <<".", "m", "o", "v">>
        MOV == <<".", "M", "O", "V">>
        mp4 == <<".", "m", "p", "4">>
        avi == <<".", "a", "v", "i">>
        matches == { n \in names : \/ EndsWith(n, <<"_">> \o id \o mov)
                                   \/ EndsWith(n, <<"_">> \o id \o MOV)
                                   \/ EndsWith(n, <<"_">> \o id \o mp4) }
        old == <<id \o mov, id \o MOV, id \o mp4, id \o avi>>
    IN  IF matches # {} THEN { Ok(UploadPath(n)) : n \in matches }
        ELSE IF \E k \in DOMAIN old : old[k] \in names
        THEN { Ok(UploadPath(old[CHOOSE k \in DOMAIN old :
                                    old[k] \in names /\ \A j \in 1..(k - 1) : old[j] \notin names])) }
        ELSE { Raise("FileNotFoundError") }

\* output_path of setup_video_writer(analysis_id, video_path)
OutputPath(video_path, id) ==
    LET original_filename == Stem(video_path.name)
        analysis_prefix   == Take(id, 8)
    IN  [dir |-> "backend/static/outputs",
         name |-> <<"o", "v", "e", "r", "l", "a", "y", "_">> \o original_filename
                    \o <<"_">> \o analysis_prefix \o <<".", "m", "p", "4">>]

\* An id the length of the model's ids: its first and last characters are
\* given, the others are "0".
MakeId(first, last) ==
    [i \in 1..IdLength |-> IF i = 1 THEN first ELSE IF i = IdLength THEN last ELSE "0"]

\* Ids generate_analysis_id may return: two agree on their first eight
\* characters, the third differs from both there.
AnalysisIds == { MakeId("1", "a"), MakeId("1", "b"), MakeId("2", "a") }

Filenames ==
    { <<"a", ".", "m", "p", "4">>, <<"a", ".", "M", "O", "V">>, <<"a", ".", "a", "v", "i">>,
      <<"a", " ", "b", ".", "m", "p", "4">>, <<"a", ".", "t", "x", "t">>, <<>> }

DocumentedLimit == 50 * 1024 * 1024

FileSizes == { DocumentedLimit, DocumentedLimit + 1, MAX_FILE_SIZE + 1 }

Contents ==
    { [start |-> "\\x00\\x00\\x00", head |-> {"ftyp", "isom"}],
      [start |-> "\\x00\\x00\\x00", head |-> {"ftyp"}],
      [start |-> "RIFF", head |-> {"AVI "}],
      [start |-> "text", head |-> {}] }

InitUpload ==
    /\ UploadIdle
    /\ PipeIdle /\ TracerIdle /\ RenderIdle /\ CoordsIdle /\ ResolverIdle

\* analyze_video receives an upload: generate_analysis_id() returns an id it
\* has not returned before.
GenerateAnalysisId ==
    /\ upc \in {"idle", "rejected", "responded"}
    /\ Cardinality(issued) < MaxUploads
    /\ \E id \in AnalysisIds \ issued, fn \in Filenames, sz \in FileSizes, c \in Contents :
         /\ file' = [filename |-> fn, size |-> sz, content |-> c]
         /\ analysis_id' = id
         /\ issued' = issued \cup {id}
    /\ response' = NoResponse
    /\ file_path' = NoPath
    /\ upc' = "generated"
    /\ UNCHANGED <<upload_dir, analysis_storage, tasks, lookup>>
    /\ UNCHANGED <<pipeVars, tracerVars, renderVars, coordVars, resolverVars>>

\* file_path = await validate_and_save_video(file, analysis_id); an
\* HTTPException it raises is the answer to the request.
ValidateAndSaveVideo ==
    /\ upc = "generated"
    /\ \E disk \in {"ok", "open_fails", "write_fails"} :
         LET r == validate_and_save_video(file, analysis_id, upload_dir, disk)
         IN  /\ upload_dir' = r.dir
             /\ file_path' = r.file_path
             /\ IF r.ok
                THEN upc' = "saved" /\ UNCHANGED response
                ELSE /\ upc' = "rejected"
                     /\ response' = [status |-> r.status, detail |-> r.detail, id |-> <<>>]
    /\ UNCHANGED <<issued, file, analysis_id, analysis_storage, tasks, lookup>>
    /\ UNCHANGED <<pipeVars, tracerVars, renderVars, coordVars, resolverVars>>

\* create_analysis_record(analysis_id)
CreateAnalysisRecord ==
    /\ upc = "saved"
    /\ analysis_storage' = (analysis_id :> [id |-> analysis_id, status |-> "processing"])
                               @@ analysis_storage
    /\ upc' = "recorded"
    /\ UNCHANGED <<issued, file, analysis_id, response, upload_dir, file_path, tasks, lookup>>
    /\ UNCHANGED <<pipeVars, tracerVars, renderVars, coordVars, resolverVars>>

\* background_tasks.add_task(process_video_background_task, file_path, analysis_id)
AddTask ==
    /\ upc = "recorded"
    /\ tasks' = Append(tasks, <<file_path, analysis_id>>)
    /\ upc' = "scheduled"
    /\ UNCHANGED <<issued, file, analysis_id, response, upload_dir, analysis_storage,
                   file_path, lookup>>
    /\ UNCHANGED <<pipeVars, tracerVars, renderVars, coordVars, resolverVars>>

\* return AnalyzeResponse(id=analysis_id, ...)
Respond ==
    /\ upc = "scheduled"
    /\ response' = [status |-> 200, detail |-> "", id |-> analysis_id]
    /\ upc' = "responded"
    /\ UNCHANGED <<issued, file, analysis_id, upload_dir, analysis_storage, file_path,
                   tasks, lookup>>
    /\ UNCHANGED <<pipeVars, tracerVars, renderVars, coordVars, resolverVars>>

\* generate_overlay_video(analysis_id) of a scheduled analysis reaching
\* find_original_video(analysis_id).
LocateOriginalVideo ==
    /\ \E t \in DOMAIN tasks :
         \E r \in find_original_video(DOMAIN upload_dir, tasks[t][2]) :
             lookup' = [analysis_id |-> tasks[t][2], result |-> r]
    /\ UNCHANGED <<upc, issued, file, analysis_id, response, upload_dir, analysis_storage,
                   file_path, tasks>>
    /\ UNCHANGED <<pipeVars, tracerVars, renderVars, coordVars, resolverVars>>

NextUpload ==
    \/ GenerateAnalysisId
    \/ ValidateAndSaveVideo
    \/ CreateAnalysisRecord
    \/ AddTask
    \/ Respond
    \/ LocateOriginalVideo

SpecUpload == InitUpload /\ [][NextUpload]_vars

-----------------------------------------------------------------------------
(* Properties of the upload endpoint (SpecUpload) *)

\* C23: find_original_video(A) returns the file validate_and_save_video
\* saved for the request with id A.
C23_UploadIsFoundById ==
    lookup.analysis_id # <<>> =>
        \A t \in DOMAIN tasks :
            tasks[t][2] = lookup.analysis_id => lookup.result = Ok(tasks[t][1])

\* C24: validate_and_save_video answers 400 to every file of more than 50MB
\* and does not turn a file of at most 50MB away for its size.
C24_FiftyMegabyteLimit ==
    upc \in {"saved", "rejected"} =>
        /\ file.size > DocumentedLimit => response.status = 400
        /\ file.size <= DocumentedLimit =>
              response.detail # "File too large. Maximum size: 50MB"

\* C28: the uploads of two analyses with distinct ids are saved under
\* distinct paths, and setup_video_writer gives them distinct output paths.
C28_DistinctIdsDistinctPaths ==
    \A i, j \in DOMAIN tasks :
        tasks[i][2] # tasks[j][2] =>
            /\ tasks[i][1] # tasks[j][1]
            /\ OutputPath(tasks[i][1], tasks[i][2]) # OutputPath(tasks[j][1], tasks[j][2])

\* The request being served left something behind: a file it wrote, a
\* record or a task under its id.
LeftTrace ==
    \/ \E n \in DOMAIN upload_dir : upload_dir[n].owner = analysis_id
    \/ analysis_id \in DOMAIN analysis_storage
    \/ \E t \in DOMAIN tasks : tasks[t][2] = analysis_id

\* C30: a request validate_and_save_video turns away with 400 changes
\* neither the upload directory nor the records nor the tasks, and nothing
\* exists under its id; a task is scheduled, and an id returned, only for an
\* id whose record exists with status "processing".
C30_RejectedUploadLeavesNoTrace ==
    /\ [][ /\ (upc' = "rejected" /\ response'.status = 400) =>
                /\ upload_dir' = upload_dir
                /\ analysis_storage' = analysis_storage
                /\ tasks' = tasks
           /\ tasks' # tasks =>
                /\ tasks' = Append(tasks, <<file_path, analysis_id>>)
                /\ analysis_id \in DOMAIN analysis_storage
                /\ analysis_storage[analysis_id].status = "processing"
           /\ (response'.status = 200 /\ response.status # 200) =>
                /\ response'.id \in DOMAIN analysis_storage
                /\ analysis_storage[response'.id].status = "processing"
                /\ \E t \in DOMAIN tasks : tasks[t][2] = response'.id
         ]_vars
    /\ []((upc = "rejected" /\ response.status = 400) => ~LeftTrace)

\* After one upload was accepted and answered, a second one with an allowed
\* name and size was turned away for its signature.
C30_Witness ==
    /\ upc = "rejected"
    /\ response.detail = "Invalid video file format detected"
    /\ Len(tasks) = 1
    /\ tasks[1][2] \in DOMAIN analysis_storage
    /\ ~LeftTrace

=============================================================================
